---- MODULE Spec2Model ----
(***************************************************************************)
(* Model of the polymarket_realtime streaming pipeline:                    *)
(*   - websocket/handlers.py : order-book sequencer and trade handler      *)
(*   - websocket/manager.py  : upstream session manager                    *)
(*   - forward/event_bus.py  : in-process event bus                        *)
(*   - forward/ws_server.py  : downstream relay server                     *)
(*                                                                         *)
(* The program is a set of asyncio tasks on one event loop.  A task is     *)
(* switched out only where it awaits something that really suspends (a     *)
(* socket send or receive, a database call, a sleep).  Acquiring an        *)
(* asyncio.Lock that is free does not suspend, and no critical section of  *)
(* the program awaits while holding its lock, so the locks are always free *)
(* when a task reaches them.  Every action below is therefore the code     *)
(* between two suspension points of one task.                              *)
(***************************************************************************)
EXTENDS Integers, FiniteSets, Sequences, TLC

\* ------------------------------------------------------------------ bounds
MaxSeq == 2          \* wire sequence numbers range over 0..MaxSeq
MaxTime == 1         \* periods longer than the TTL that the monotonic clock
                     \* runs through
MaxSent == 2         \* subscribe frames counted per (token, channel): 0..MaxSent
MaxSlots == 3        \* entries (live or deleted) of the registry dict while
                     \* it is being iterated
MaxSleeps == 3       \* back-off sleeps counted since the last successful
                     \* connect; the count stops there, where the delay has
                     \* reached its maximum (2^MaxSleeps >= MaxDelay)
MaxDelay == 4        \* largest reconnect delay, in seconds
MaxHandled == 3      \* times the tracked trade message is processed
MaxListeners == 2    \* listening sockets that start() may have open at once
MaxEvents == 2       \* forward events numbered per token
MaxErrors == 1       \* error frames counted per connection

\* Program constants of handlers.py, scaled down so that the model reaches
\* them (the source values are 10_000 entries, 600 seconds, 1000 messages).
ORDERBOOK_MAX_ENTRIES == 1
ORDERBOOK_TTL_SECONDS == 1
ORDERBOOK_PRUNE_INTERVAL == 2

\* Python's None for an absent integer field (data.get("seq")).
None == -2

Tokens == {"T1", "T2"}
\* data.get("market") or data.get("asset_id"): "" stands for a missing or
\* empty token id.
NoToken == ""
TradeIds == {"X", "Y"}
NoId == ""
\* channels = {"l2", "trades"}, the default of WebSocketManager.subscribe
Channels == {"l2", "trades"}
\* downstream connections (websocket objects) of the relay
Conns == {"c1", "c2"}
\* ForwardServer._on_event, the callback the relay registers on the bus
on_event == "on_event"

VARIABLES
  \* ---- handlers.py
  now,                       \* time.monotonic()
  orderbook_state,           \* _orderbook_state: token -> entry, NoEntry when absent
  orderbook_message_count,   \* _orderbook_message_count
  h,                         \* frame of the message handler the receive loop awaits
  db_trades,                 \* rows of table trades (by trade_id)
  route,                     \* the last message given to _route_single_message
                             \* and the path the router took for it
  \* ---- history of the sequencer (not program state)
  snap_seen,                 \* token -> a snapshot of it was accepted at some time
  tracked,                   \* the token whose accepted sequences are recorded
  acc,                       \* sequence carried by the last accepted sequenced
                             \* message of the tracked token (None: none yet)
  upd_chain,                 \* sequences of the last (at most two) l2updates
                             \* accepted for the tracked token with a sequence the
                             \* handler recognised, since the last re-baseline
  \* ---- manager.py
  is_running,                \* WebSocketManager._is_running
  ws,                        \* _ws: "none" (None), "open", "closed" (not OPEN)
  subscriptions,             \* _subscriptions: the entries of the dict in
                             \* insertion order, NoToken for a deleted entry
  sent,                      \* subscribe frames written to the socket that is
                             \* open, per token and channel (none when no
                             \* socket is open)
  run,                       \* position of the task in run(), with the dict
                             \* iterator and the channels left of _resubscribe_all
  heartbeat,                 \* _heartbeat_task: "none", "active", "done"
  \* ---- event_bus.py, ws_server.py
  subscribers,               \* EventBus._subscribers
  token_connections,         \* ForwardServer._token_connections
  connection_tokens,         \* ForwardServer._connection_tokens
  client,                    \* per connection: its socket and its handler task
  fan,                       \* the fan-out sends (_send_safe) pending, each with
                             \* its connection and the token and number of its
                             \* event (NoToken and 0: the event is not numbered)
  server,                    \* ForwardServer._server: "none" (None), "listening",
                             \* "closing" (stop awaits wait_closed)
  relay_is_running,          \* ForwardServer._is_running
  listeners,                 \* listening sockets opened by websockets.serve and
                             \* not closed
  \* ---- history of the forward events (not program state)
  event_count,               \* token -> forward events of its order-book
                             \* messages published so far (they are numbered
                             \* in this order)
  delivered,                 \* connection -> the numbered events written to
                             \* its socket, in the order of the writes
  \* ---- event_bus.py: one call of publish
  pub,                       \* its position, its snapshot of callbacks and the
                             \* callbacks it has invoked
  \* ---- repository.py
  orderbook_levels,          \* table orderbook_levels: the size stored at each
                             \* (token_id, side, price)
  trade_hist,                \* for one trade_id: rows inserted, what save_trade
                             \* returned and the forward events published
  \* ---- manager.py: reconnection
  backoff,                   \* _reconnect_delay, _max_reconnect_delay,
                             \* _current_reconnect_delay and the back-off sleeps
                             \* taken since the last successful connect
  hb_failed                  \* a heartbeat send failed and no connect attempt
                             \* has completed since

seqVars == <<now, orderbook_state, orderbook_message_count, h, db_trades>>
histVars == <<snap_seen, tracked, acc, upd_chain>>

storeVars == <<pub, orderbook_levels, trade_hist>>
backVars == <<backoff, hb_failed>>
pipeVars == <<seqVars, histVars, storeVars, route>>
mgrVars == <<is_running, ws, subscriptions, sent, run, heartbeat, backVars>>
lifeVars == <<server, relay_is_running, listeners>>
orderVars == <<event_count, delivered>>
relayVars ==
  <<subscribers, token_connections, connection_tokens, client, fan, lifeVars, orderVars>>

vars == <<pipeVars, mgrVars, relayVars>>

\* ------------------------------------------------------- order-book state
NoEntry == [present |-> FALSE, last_sequence |-> -1, has_snapshot |-> FALSE,
            last_seen_monotonic |-> 0]

OrderbookState(last_sequence, has_snapshot, last_seen) ==
  [present |-> TRUE, last_sequence |-> last_sequence,
   has_snapshot |-> has_snapshot, last_seen_monotonic |-> last_seen]

Present(st) == {t \in Tokens : st[t].present}

\* Python truthiness of an optional int: None and 0 are falsy.
Truthy(x) == x # None /\ x # 0

\* a or b
PyOr(a, b) == IF Truthy(a) THEN a ELSE b

\* sequence = data.get("seq") or data.get("sequence")
Sequence(m) == PyOr(m.seq, m.sequence)

\* The sequence number the frame carries on the wire (whichever key is present).
Carried(m) == IF m.seq # None THEN m.seq ELSE m.sequence

\* Stale keys with the test written >=.
StaleKeysGe(st, t_now) ==
  {t \in Present(st) : t_now - st[t].last_seen_monotonic >= ORDERBOOK_TTL_SECONDS}

\* stale_keys of _prune_orderbook_state
StaleKeys(st, t_now) ==
  {t \in Present(st) : t_now - st[t].last_seen_monotonic > ORDERBOOK_TTL_SECONDS}

Remove(st, keys) == [t \in Tokens |-> IF t \in keys THEN NoEntry ELSE st[t]]

\* An eviction that stops one entry short of the limit.
EvictionsOneShort(st) ==
  LET n == Cardinality(Present(st)) - ORDERBOOK_MAX_ENTRIES - 1
  IN  IF n <= 0 THEN {{}}
      ELSE {E \in SUBSET Present(st) : Cardinality(E) = n}

\* An eviction of the entries seen last.
EvictionsNewest(st) ==
  LET n == Cardinality(Present(st)) - ORDERBOOK_MAX_ENTRIES
  IN  IF n <= 0 THEN {{}}
      ELSE {E \in SUBSET Present(st) :
              /\ Cardinality(E) = n
              /\ \A e \in E : \A r \in Present(st) \ E :
                   st[e].last_seen_monotonic >= st[r].last_seen_monotonic}

\* sorted_items[:overflow]: the `overflow` entries with the oldest
\* last_seen_monotonic.  The sort is stable, so ties fall in dict order, which
\* the model does not keep: every choice among ties is allowed.
Evictions(st) ==
  LET n == Cardinality(Present(st)) - ORDERBOOK_MAX_ENTRIES
  IN  IF n <= 0 THEN {{}}
      ELSE {E \in SUBSET Present(st) :
              /\ Cardinality(E) = n
              /\ \A e \in E : \A r \in Present(st) \ E :
                   st[e].last_seen_monotonic <= st[r].last_seen_monotonic}

\* _prune_orderbook_state(now): the set of maps a prune pass can leave.
Pruned(st, t_now) ==
  LET live == Remove(st, StaleKeys(st, t_now))
  IN  {Remove(live, E) : E \in Evictions(live)}

\* ------------------------------------------------------------------ router
\* What a message holds under one of the keys event_type, type and channel:
\* nothing (the key is missing), a value that is not a string (null stands
\* for all of them), or a string.
Absent == "<absent>"
Null == "<null>"
RouteValues ==
  {Absent, Null, "", "book", "BOOK", "price_change", "last_trade_price",
   "tick_size_change", "trade", "trades", "snapshot", "l2update", "l2", "pong",
   "subscribed", "error", "other"}

\* str.lower() on the strings of RouteValues and of the client frames.
Lower(str) ==
  IF str = "BOOK" THEN "book" ELSE IF str = "SUBSCRIBE" THEN "subscribe" ELSE str

\* data.get(key, ""): the default only when the key is missing.
GetOrEmpty(value) == IF value = Absent THEN "" ELSE value

\* Nothing has been routed yet.
NoRoute == [event_type |-> Absent, type |-> Absent, channel |-> Absent,
            rule |-> 0, path |-> "none"]

\* _route_single_message(data): the rule that matches and the path taken.
\* orderbook and trade are the two handlers; log and noop return without
\* calling a handler; raise is the AttributeError of .lower() on a value that
\* is not a string, which leaves the router before any rule is tried (the
\* receive loop logs it).  Rule 10 is the message with no non-empty key, for
\* which the last elif is false.
RouteSingleMessage(data_event_type, data_type, data_channel) ==
  IF Null \in {data_event_type, data_type, data_channel}
  THEN [rule |-> 0, path |-> "raise"]
  ELSE LET event_type == Lower(GetOrEmpty(data_event_type))
           msg_type == Lower(GetOrEmpty(data_type))
           channel == Lower(GetOrEmpty(data_channel))
       IN  IF event_type = "book" THEN [rule |-> 1, path |-> "orderbook"]
           ELSE IF event_type = "price_change" THEN [rule |-> 1, path |-> "orderbook"]
           ELSE IF event_type = "last_trade_price" THEN [rule |-> 2, path |-> "trade"]
           ELSE IF event_type = "tick_size_change" THEN [rule |-> 3, path |-> "log"]
           ELSE IF msg_type = "trade" \/ channel = "trades"
                THEN [rule |-> 4, path |-> "trade"]
           ELSE IF msg_type \in {"snapshot", "l2update"} \/ channel = "l2"
                THEN [rule |-> 5, path |-> "orderbook"]
           ELSE IF msg_type = "pong" THEN [rule |-> 6, path |-> "noop"]
           ELSE IF msg_type = "subscribed" THEN [rule |-> 7, path |-> "log"]
           ELSE IF msg_type = "error" THEN [rule |-> 8, path |-> "log"]
           ELSE IF event_type # "" \/ msg_type # "" \/ channel # ""
                THEN [rule |-> 9, path |-> "log"]
           ELSE [rule |-> 10, path |-> "noop"]

\* The receive loop gives a message to the router.
RouteMessage(data_event_type, data_type, data_channel) ==
  /\ route.path = "none"
  /\ route' = [event_type |-> data_event_type, type |-> data_type,
               channel |-> data_channel,
               rule |-> RouteSingleMessage(data_event_type, data_type, data_channel).rule,
               path |-> RouteSingleMessage(data_event_type, data_type, data_channel).path]
  /\ UNCHANGED <<seqVars, histVars, storeVars, mgrVars, relayVars>>

\* The receive loop goes on to its next message.
RouteReturns ==
  /\ route.path # "none"
  /\ route' = NoRoute
  /\ UNCHANGED <<seqVars, histVars, storeVars, mgrVars, relayVars>>

RouteNext ==
  \/ \E e \in RouteValues, t \in RouteValues, c \in RouteValues : RouteMessage(e, t, c)
  \/ RouteReturns

\* ------------------------------------------------------- handler frame
\* The frame holds the message and the locals while the handler is suspended
\* in its persistence call; once the handler has returned only its outcome
\* (result, published) is kept, until the next message.
Idle == [pc |-> "idle", kind |-> "none", type |-> "", token |-> NoToken,
         seq |-> None, sequence |-> None, id |-> NoId,
         last_seq |-> -1, has_snapshot |-> FALSE, now |-> 0,
         result |-> "none", published |-> FALSE]

Returned(result, published) ==
  [Idle EXCEPT !.result = result, !.published = published]

Suspended(m, pc, last_seq, has_snapshot, t_now) ==
  [pc |-> pc, kind |-> m.kind, type |-> m.type, token |-> m.token, seq |-> m.seq,
   sequence |-> m.sequence, id |-> m.id, last_seq |-> last_seq,
   has_snapshot |-> has_snapshot, now |-> t_now, result |-> "none",
   published |-> FALSE]

SeqVals == {None} \cup (0..MaxSeq)

\* Order-book frames: type "snapshot", "l2update" or anything else ("book"
\* stands for a frame routed by event_type that has no type).  The number is
\* sent under the key seq; under the key sequence a non-zero number is handled
\* exactly as under seq, so the only frame with that key is the one carrying 0.
\* A frame without a token id has one representative per type.
BookMessages ==
  {m \in [kind : {"book"}, type : {"snapshot", "l2update", "book"},
          token : Tokens \cup {NoToken}, seq : SeqVals, sequence : {None, 0},
          id : {NoId}] :
     /\ m.seq = None \/ m.sequence = None
     /\ m.token = NoToken => m.seq = None /\ m.sequence = None}

TradeMessages ==
  [kind : {"trade"}, type : {"trade"}, token : Tokens \cup {NoToken},
   seq : {None}, sequence : {None}, id : TradeIds \cup {NoId}]

InitPipeline ==
  /\ now = 0
  /\ orderbook_state = [t \in Tokens |-> NoEntry]
  /\ orderbook_message_count = 0
  /\ h = Idle
  /\ db_trades = {}
  /\ snap_seen = [t \in Tokens |-> FALSE]
  /\ acc = None
  /\ upd_chain = <<>>
  /\ route = NoRoute

\* The last value of time.monotonic().
ClockEnd == (ORDERBOOK_TTL_SECONDS + 1) * MaxTime

\* time.monotonic() advances by more than the TTL.
Tick ==
  /\ now + ORDERBOOK_TTL_SECONDS + 1 <= ClockEnd
  /\ now' = now + ORDERBOOK_TTL_SECONDS + 1
  /\ UNCHANGED <<orderbook_state, orderbook_message_count, h, db_trades, histVars, storeVars, mgrVars, relayVars,
                 route>>

\* time.monotonic() advances by less than the TTL.
TickWithin ==
  /\ now < ClockEnd
  /\ now' = now + 1
  /\ UNCHANGED <<orderbook_state, orderbook_message_count, h, db_trades, histVars,
                 storeVars, mgrVars, relayVars, route>>

\* Decision without the snapshot gate of lines 310-315.
DecisionNoGate(msg_type, sequence, last_seq, has_snapshot) ==
  IF msg_type = "l2update" /\ sequence # None /\ last_seq >= 0 /\ sequence <= last_seq
  THEN "drop_stale" ELSE "accept"

\* Decision with the stale test of line 319 written sequence < last_seq.
DecisionStaleLt(msg_type, sequence, last_seq, has_snapshot) ==
  IF msg_type = "l2update" /\ ~has_snapshot THEN "drop_no_snapshot"
  ELSE IF msg_type = "l2update" /\ sequence # None /\ last_seq >= 0
          /\ sequence < last_seq
       THEN "drop_stale" ELSE "accept"

\* handle_orderbook_message, lines 282-340: what the sequencer decides for a
\* frame of type msg_type, given the locals sequence, last_seq, has_snapshot.
Decision(msg_type, sequence, last_seq, has_snapshot) ==
  IF msg_type = "snapshot" THEN "accept"
  ELSE IF msg_type = "l2update"
       THEN IF ~has_snapshot THEN "drop_no_snapshot"
            ELSE IF sequence # None /\ last_seq >= 0 /\ sequence <= last_seq
                 THEN "drop_stale"
                 ELSE "accept"
       ELSE "accept"

\* A stored state that marks the baseline whatever the type of the frame.
NewStateBaseline(msg_type, sequence, last_seq, has_snapshot, t_now) ==
  OrderbookState(PyOr(sequence, IF msg_type = "snapshot" THEN 0 ELSE last_seq),
                 TRUE, t_now)

\* A stored state whose sequence starts again at 0 when the frame has none.
NewStateRestart(msg_type, sequence, last_seq, has_snapshot, t_now) ==
  OrderbookState(PyOr(sequence, 0),
                 IF msg_type \in {"snapshot", "l2update"} THEN TRUE ELSE has_snapshot,
                 t_now)

\* The _OrderbookState the handler stores once upsert_orderbook has returned
\* (lines 286-290, 343-347, 368-372).
NewState(msg_type, sequence, last_seq, has_snapshot, t_now) ==
  IF msg_type = "snapshot" THEN OrderbookState(PyOr(sequence, 0), TRUE, t_now)
  ELSE IF msg_type = "l2update"
       THEN OrderbookState(PyOr(sequence, last_seq), TRUE, t_now)
       ELSE OrderbookState(PyOr(sequence, last_seq), has_snapshot, t_now)

\* handle_orderbook_message up to its first await (db.upsert_orderbook): the
\* token check, the message count and the periodic prune, the read of the
\* token's state and the accept-or-drop decision.
HandleOrderbookMessage(m) ==
  /\ h.pc = "idle"
  /\ IF m.token = NoToken
     THEN /\ h' = Returned("no_token", FALSE)
          /\ UNCHANGED <<orderbook_state, orderbook_message_count>>
     ELSE LET count == orderbook_message_count + 1
              prune == count >= ORDERBOOK_PRUNE_INTERVAL
          IN  /\ orderbook_message_count' = IF prune THEN 0 ELSE count
              /\ \E st \in (IF prune THEN Pruned(orderbook_state, now)
                                     ELSE {orderbook_state}) :
                   LET state == st[m.token]
                       last_seq == IF state.present THEN state.last_sequence ELSE -1
                       has_snapshot == IF state.present THEN state.has_snapshot ELSE FALSE
                       d == Decision(m.type, Sequence(m), last_seq, has_snapshot)
                   IN  /\ orderbook_state' = st
                       /\ h' = IF d = "accept"
                               THEN Suspended(m, "upsert", last_seq, has_snapshot, now)
                               ELSE Returned(d, FALSE)
  /\ UNCHANGED <<now, db_trades, histVars, storeVars, mgrVars, relayVars, route>>

\* The history after the message of frame f has been accepted.
AccAfter(f) == IF f.token = tracked /\ Carried(f) # None THEN Carried(f) ELSE acc

ChainAfter(f) ==
  IF f.token # tracked THEN upd_chain
  ELSE IF f.type = "snapshot" THEN <<>>
  ELSE IF f.type = "l2update"
       THEN IF ~Truthy(Sequence(f)) THEN upd_chain
            ELSE IF upd_chain = <<>> THEN <<Sequence(f)>>
            ELSE <<upd_chain[Len(upd_chain)], Sequence(f)>>
  ELSE IF Truthy(Sequence(f)) THEN <<>> ELSE upd_chain

SnapSeenAfter(f) ==
  IF tracked = NoToken /\ f.type = "snapshot"
  THEN [snap_seen EXCEPT ![f.token] = TRUE] ELSE snap_seen

\* await db.upsert_orderbook(snapshot) returns: the state of the token is
\* stored and the forward event is published.
UpsertReturned ==
  /\ h.pc = "upsert"
  /\ orderbook_state' =
       [orderbook_state EXCEPT ![h.token] =
          NewState(h.type, Sequence(h), h.last_seq, h.has_snapshot, h.now)]
  /\ h' = Returned("accepted", TRUE)
  /\ snap_seen' = SnapSeenAfter(h)
  /\ acc' = AccAfter(h)
  /\ upd_chain' = ChainAfter(h)
  /\ UNCHANGED <<now, orderbook_message_count, db_trades, tracked, storeVars, route>>

\* The same where what the publish reaches is left out.
UpsertReturns ==
  /\ UpsertReturned
  /\ UNCHANGED <<mgrVars, relayVars>>

\* await db.upsert_orderbook(snapshot) raises (an I/O error of the store): the
\* handler's except clause logs and the handler returns (lines 387-391).
UpsertRaises ==
  /\ h.pc = "upsert"
  /\ h' = Returned("failed", FALSE)
  /\ UNCHANGED <<now, orderbook_state, orderbook_message_count, db_trades, histVars, storeVars, mgrVars, relayVars,
                 route>>

\* prune_orderbook_state(), called on every heartbeat tick of the manager.
PruneOrderbookState ==
  /\ \E st \in Pruned(orderbook_state, now) : orderbook_state' = st
  /\ UNCHANGED <<now, orderbook_message_count, h, db_trades, histVars, storeVars, mgrVars, relayVars,
                 route>>

\* reset_orderbook_state(token_id): one token, or everything (and the message
\* count) when token_id is None or empty.
ResetOrderbookState(token_id) ==
  /\ IF token_id # NoToken
     THEN /\ orderbook_state' = Remove(orderbook_state, {token_id})
          /\ UNCHANGED orderbook_message_count
     ELSE /\ orderbook_state' = [t \in Tokens |-> NoEntry]
          /\ orderbook_message_count' = 0
  /\ UNCHANGED <<now, h, db_trades, histVars, storeVars>>

\* reset_orderbook_state(token_id) on its own.
Reset(token_id) ==
  ResetOrderbookState(token_id) /\ UNCHANGED <<mgrVars, relayVars, route>>

SeqNext ==
  \/ Tick
  \/ \E m \in BookMessages : HandleOrderbookMessage(m)
  \/ UpsertReturns
  \/ UpsertRaises
  \/ PruneOrderbookState
  \/ \E t \in Tokens \cup {NoToken} : Reset(t)

\* ------------------------------------------------------- trade handler
\* No trade_id is followed.
NoTradeHist == [id |-> NoId, handled |-> 0, failures |-> 0, rows |-> 0,
                saves |-> <<>>, events |-> 0]

\* The trade_id that is followed is the one of the message being handled.
Followed(id) == id # NoId /\ id = trade_hist.id

\* An INSERT that no key constrains.
SavedAlways(db, id) == TRUE

\* What save_trade returns: True when the INSERT succeeds, False on the
\* IntegrityError of the primary key trade_id.
Saved(db, id) == id \notin db

\* handle_trade_message up to its await of db.save_trade.
HandleTradeMessage(m) ==
  /\ h.pc = "idle"
  /\ Followed(m.id) => trade_hist.handled < MaxHandled
  /\ h' = IF m.id = NoId THEN Returned("no_id", FALSE)
          ELSE IF m.token = NoToken THEN Returned("no_token", FALSE)
          ELSE Suspended(m, "save_trade", -1, FALSE, 0)
  /\ trade_hist' = IF Followed(m.id) /\ m.token # NoToken
                   THEN [trade_hist EXCEPT !.handled = @ + 1] ELSE trade_hist
  /\ UNCHANGED <<now, orderbook_state, orderbook_message_count, db_trades, histVars, pub, orderbook_levels, mgrVars, relayVars,
                 route>>

\* Database.save_trade returns: True when the row was inserted, False on the
\* IntegrityError of a duplicate trade_id; then the forward event is published.
SaveTradeReturns ==
  /\ h.pc = "save_trade"
  /\ db_trades' = db_trades \cup {h.id}
  /\ h' = [Returned(IF Saved(db_trades, h.id) THEN "inserted" ELSE "duplicate", TRUE)
             EXCEPT !.kind = "trade", !.id = h.id, !.token = h.token]
  /\ trade_hist' = IF Followed(h.id)
                   THEN [trade_hist EXCEPT
                           !.rows = @ + (IF Saved(db_trades, h.id) THEN 1 ELSE 0),
                           !.saves = Append(@, Saved(db_trades, h.id)),
                           !.events = @ + 1]
                   ELSE trade_hist
  /\ UNCHANGED <<now, orderbook_state, orderbook_message_count, histVars, pub, orderbook_levels, mgrVars, relayVars,
                 route>>

\* Database.save_trade raises anything but IntegrityError: handle_trade_message's
\* except clause logs and the handler returns (lines 219-223).
SaveTradeRaises ==
  /\ h.pc = "save_trade"
  /\ h' = [Returned("failed", FALSE)
             EXCEPT !.kind = "trade", !.id = h.id, !.token = h.token]
  /\ trade_hist' = IF Followed(h.id)
                   THEN [trade_hist EXCEPT !.failures = @ + 1] ELSE trade_hist
  /\ UNCHANGED <<now, orderbook_state, orderbook_message_count, db_trades, histVars, pub, orderbook_levels, mgrVars, relayVars,
                 route>>

TradeNext ==
  \/ \E m \in TradeMessages : HandleTradeMessage(m)
  \/ SaveTradeReturns
  \/ SaveTradeRaises

\* ------------------------------------------- persistence: order-book levels
\* Table orderbook_levels, UNIQUE (token_id, side, price), with price and size
\* in TEXT columns: a map from <<token_id, side, price>> to the size text.
Sides == {"bid", "ask"}

\* Prices and sizes as they arrive in a message, and str(Decimal(v)) of each.
WirePrices == {"0.5", "0.50"}
WireSizes == {"0", "00", "0.0", "1"}
DecimalStr(v) == IF v = "00" THEN "0" ELSE v

\* The stored texts whose number is zero.
ZeroSize(size) == size \in {"0", "0.0"}

\* The lists of at most one [price, size] level.
WireLevels ==
  {<<>>} \cup {<<[price |-> p, size |-> s]>> : p \in WirePrices, s \in WireSizes}

NoLevels == [k \in {} |-> "0"]

\* INSERT ... ON CONFLICT(token_id, side, price) DO UPDATE SET size, one
\* statement per level of the list.
RECURSIVE UpsertSide(_, _, _, _)
UpsertSide(levels, token_id, side, list) ==
  IF list = <<>> THEN levels
  ELSE LET key == <<token_id, side, DecimalStr(Head(list).price)>>
           size == DecimalStr(Head(list).size)
       IN  UpsertSide([k \in DOMAIN levels \cup {key} |->
                         IF k = key THEN size ELSE levels[k]],
                      token_id, side, Tail(list))

\* DELETE FROM orderbook_levels WHERE token_id = ? AND size = '0'
DeleteZeroSize(levels, token_id) ==
  [k \in {x \in DOMAIN levels : ~(x[1] = token_id /\ levels[x] = "0")} |-> levels[k]]

\* Database.upsert_orderbook(snapshot), under the connection lock.
UpsertOrderbook(token_id, bids, asks) ==
  /\ orderbook_levels' =
       DeleteZeroSize(UpsertSide(UpsertSide(orderbook_levels, token_id, "bid", bids),
                                 token_id, "ask", asks),
                      token_id)
  /\ UNCHANGED <<pub, trade_hist, seqVars, histVars, mgrVars, relayVars, route>>

BookNext ==
  \E t \in Tokens, bids \in WireLevels, asks \in WireLevels :
    UpsertOrderbook(t, bids, asks)

\* ------------------------------------------------ upstream session manager
\* The registry dict.  CPython keeps the entries of a dict in an array in
\* insertion order: a new key is appended, a deleted key leaves a hole, and
\* assigning to a key that is there replaces the value in place.  The array
\* is rebuilt without holes when an insertion finds it full, which takes more
\* than MaxSlots insertions.  Holes are observable by an iterator only, so
\* the registry is kept without holes while _resubscribe_all is not running.
Live(slots) == {slots[i] : i \in 1..Len(slots)} \ {NoToken}

Compact(slots) == SelectSeq(slots, LAMBDA k : k # NoToken)

\* An assignment that replaces the dict by the one entry.
InsertAlone(slots, token_id) == <<token_id>>

\* self._subscriptions[token_id] = channels
Insert(slots, token_id) ==
  IF token_id \in Live(slots) THEN slots ELSE Append(slots, token_id)

\* A pop that finds nothing.
DeleteNothing(slots, token_id) == slots

\* self._subscriptions.pop(token_id, None)
Delete(slots, token_id) ==
  [i \in 1..Len(slots) |-> IF slots[i] = token_id THEN NoToken ELSE slots[i]]

\* The frame of run(): pc, and while in _resubscribe_all the dict iterator
\* (pos: entries passed, len: items still expected, used: size of the dict when
\* the iterator was made), the token of the current item and its channels
\* still to send.
RunAt(pc) ==
  [pc |-> pc, pos |-> 0, len |-> 0, used |-> 0, token |-> NoToken, chans |-> {}]

\* iter(self._subscriptions.items())
NewIter(slots) ==
  [RunAt("resub") EXCEPT !.len = Cardinality(Live(slots)),
                         !.used = Cardinality(Live(slots))]

Min(S) == CHOOSE x \in S : \A y \in S : x <= y

\* next() of the dict iterator: RuntimeError when the size of the dict is not
\* the size it had when the iterator was made, StopIteration past the last
\* entry, RuntimeError when an entry is found although every expected item has
\* been delivered.
IterNext(slots, r) ==
  LET rest == {i \in (r.pos + 1)..Len(slots) : slots[i] # NoToken}
  IN  IF r.used # Cardinality(Live(slots)) THEN [kind |-> "error", pos |-> 0, token |-> NoToken]
      ELSE IF rest = {} THEN [kind |-> "stop", pos |-> 0, token |-> NoToken]
      ELSE IF r.len = 0 THEN [kind |-> "error", pos |-> 0, token |-> NoToken]
      ELSE [kind |-> "item", pos |-> Min(rest), token |-> slots[Min(rest)]]

\* The next (token_id, channel) of the two loops of _resubscribe_all, or the end
\* of the outer loop, or the iterator's error.  A set is iterated in an order
\* the program does not fix: any channel left may come next.
NextTarget(slots, r) ==
  IF r.chans # {}
  THEN {[kind |-> "item", ch |-> c, to |-> [r EXCEPT !.chans = @ \ {c}]] : c \in r.chans}
  ELSE LET n == IterNext(slots, r)
       IN  IF n.kind = "item"
           THEN {[kind |-> "item", ch |-> c,
                  to |-> [r EXCEPT !.pos = n.pos, !.len = @ - 1, !.token = n.token,
                                   !.chans = Channels \ {c}]] : c \in Channels}
           ELSE {[kind |-> n.kind, ch |-> "", to |-> r]}

NoneSent == [t \in Tokens |-> [c \in Channels |-> 0]]

\* One more subscribe frame of (token_id, channel) on the socket.
Frame(s, token_id, channel) ==
  [s EXCEPT ![token_id][channel] = IF @ < MaxSent THEN @ + 1 ELSE @]

FramesFor(s, token_id) == s[token_id]["l2"] + s[token_id]["trades"]

\* The reconnection fields as __init__ sets them.
Backoff(reconnect_delay, max_reconnect_delay) ==
  [initial |-> reconnect_delay, max |-> max_reconnect_delay,
   current |-> reconnect_delay, sleeps |-> 0]

\* A delay that is doubled without the cap.
NextDelayUncapped(current, max) == current * 2

\* _wait_before_reconnect after its sleep: the next delay.
NextDelay(current, max) == Min({current * 2, max})

\* The state of the socket after a heartbeat whose failure is only logged.
HeartbeatLeavesSocket == "open"

\* _heartbeat_loop's except clause: the socket is closed.
HeartbeatClosesSocket == "closed"

InitManager ==
  /\ is_running = FALSE
  /\ ws = "none"
  /\ subscriptions = <<>>
  /\ sent = NoneSent
  /\ run = RunAt("idle")
  /\ heartbeat = "none"
  /\ hb_failed = FALSE

\* WebSocketManager.subscribe(token_id): the registry entry is written, then,
\* if the socket is OPEN, one frame per channel is sent.  A send that fails
\* (the peer is gone) raises ConnectionClosed out of subscribe and leaves the
\* socket closed.  The sends of one call are taken as one step.
ManagerSubscribe(token_id) ==
  /\ run.pc = "resub" /\ token_id \notin Live(subscriptions)
       => Len(subscriptions) < MaxSlots
  /\ subscriptions' = Insert(subscriptions, token_id)
  /\ IF ws = "open"
     THEN \/ /\ sent' = Frame(Frame(sent, token_id, "l2"), token_id, "trades")
             /\ UNCHANGED ws
          \/ /\ sent' = NoneSent
             /\ ws' = "closed"
     ELSE UNCHANGED <<sent, ws>>

\* subscribe() raised in this step.
SubscribeRaised == ws = "open" /\ ws' = "closed"

\* subscribe(token_id) called by a task other than run() (the application's
\* start-up subscribes the cached markets while run() is connecting).
Subscribe(token_id) ==
  /\ ManagerSubscribe(token_id)
  /\ UNCHANGED <<is_running, run, heartbeat, pipeVars, backVars, relayVars>>

\* unsubscribe(token_id) called by a task other than run(): the entry is
\* removed and the sequencer state of the token dropped; nothing is sent.
Unsubscribe(token_id) ==
  /\ subscriptions' = IF run.pc = "resub" THEN Delete(subscriptions, token_id)
                      ELSE Compact(Delete(subscriptions, token_id))
  /\ ResetOrderbookState(token_id)
  /\ UNCHANGED <<is_running, ws, sent, run, heartbeat, backVars, relayVars, route>>

\* run() is started: _is_running = True, then connect() awaits the handshake.
Run ==
  /\ run.pc = "idle"
  /\ is_running' = TRUE
  /\ run' = RunAt("connect")
  /\ UNCHANGED <<ws, subscriptions, sent, heartbeat, pipeVars, backVars, relayVars>>

\* _resubscribe_all from iterator state r, up to its next suspension, with the
\* socket in state w and the frame counts s: the next (token, channel) frame is
\* sent (skipped when _ws is None, ConnectionClosed when the socket is closed),
\* or the loops end and run() goes on to create the heartbeat task and enter
\* _receive_loop (which returns at once when _ws is None), or the iterator
\* raises RuntimeError.  An exception leaves run().
Resubscribe(r, w, s) ==
  \E n \in NextTarget(subscriptions, r) :
    IF n.kind = "item"
    THEN IF w = "closed"
         THEN /\ run' = RunAt("crashed")
              /\ subscriptions' = Compact(subscriptions)
              /\ sent' = s
              /\ UNCHANGED heartbeat
         ELSE /\ run' = n.to
              /\ sent' = IF w = "open" THEN Frame(s, n.to.token, n.ch) ELSE s
              /\ UNCHANGED <<subscriptions, heartbeat>>
    ELSE IF n.kind = "stop"
    THEN /\ run' = RunAt(IF w = "none" THEN "cleanup" ELSE "receive")
         /\ heartbeat' = IF w = "none" THEN "done" ELSE "active"
         /\ subscriptions' = Compact(subscriptions)
         /\ sent' = s
    ELSE /\ run' = RunAt("crashed")
         /\ subscriptions' = Compact(subscriptions)
         /\ sent' = s
         /\ UNCHANGED heartbeat

\* connect() succeeds: _ws is the new socket, and run() starts _resubscribe_all.
ConnectOk ==
  /\ run.pc = "connect"
  /\ ws' = "open"
  /\ Resubscribe(NewIter(subscriptions), "open", NoneSent)
  /\ backoff' = [backoff EXCEPT !.current = backoff.initial, !.sleeps = 0]
  /\ hb_failed' = FALSE
  /\ UNCHANGED <<is_running, pipeVars, relayVars>>

\* connect() fails and returns False: run() sleeps in _wait_before_reconnect.
ConnectFails ==
  /\ run.pc = "connect"
  /\ run' = RunAt("backoff")
  /\ hb_failed' = FALSE
  /\ UNCHANGED <<is_running, ws, subscriptions, sent, heartbeat, pipeVars, backoff, relayVars>>

\* The sleep of _wait_before_reconnect (of _current_reconnect_delay seconds) is
\* over: the delay is doubled up to the maximum, then the while test of run().
BackoffDone ==
  /\ run.pc = "backoff"
  /\ run' = RunAt(IF is_running THEN "connect" ELSE "returned")
  /\ backoff' = [backoff EXCEPT
                   !.current = NextDelay(backoff.current, backoff.max),
                   !.sleeps = Min({backoff.sleeps + 1, MaxSleeps})]
  /\ UNCHANGED <<is_running, ws, subscriptions, sent, heartbeat, pipeVars, hb_failed, relayVars>>

\* _resubscribe_all resumes from the sleep after a frame.
ResubscribeAll ==
  /\ run.pc = "resub"
  /\ Resubscribe(run, ws, sent)
  /\ UNCHANGED <<is_running, ws, pipeVars, backVars, relayVars>>

\* The receive loop ends and run() goes on without cancelling the heartbeat
\* task.
ReceiveLoopEndsNoCancel ==
  /\ run.pc = "receive"
  /\ ws # "open" \/ ~is_running
  /\ run' = RunAt("cleanup")
  /\ UNCHANGED <<is_running, ws, subscriptions, sent, heartbeat, pipeVars, backVars, relayVars>>

\* _receive_loop ends: the socket it iterates is closed, or a message arrives
\* after stop() has cleared _is_running.  run() cancels the heartbeat task.
ReceiveLoopEnds ==
  /\ run.pc = "receive"
  /\ ws # "open" \/ ~is_running
  /\ run' = RunAt("cleanup")
  /\ heartbeat' = "done"
  /\ UNCHANGED <<is_running, ws, subscriptions, sent, pipeVars, backVars, relayVars>>

\* run() after the heartbeat task: disconnect(), then the back-off sleep if
\* still running, else the loop and run() end.
Disconnect ==
  /\ run.pc = "cleanup"
  /\ ws' = "none"
  /\ sent' = NoneSent
  /\ run' = RunAt(IF is_running THEN "backoff" ELSE "returned")
  /\ UNCHANGED <<is_running, subscriptions, heartbeat, pipeVars, backVars, relayVars>>

\* The peer or the network closes the socket.
RemoteClose ==
  /\ ws = "open"
  /\ ws' = "closed"
  /\ sent' = NoneSent
  /\ UNCHANGED <<is_running, subscriptions, run, heartbeat, pipeVars, backVars, relayVars>>

\* _heartbeat_loop: the send of PING raises; the loop closes the socket and
\* ends.
HeartbeatFails ==
  /\ heartbeat = "active" /\ is_running /\ ws # "none"
  /\ ws' = HeartbeatClosesSocket
  /\ sent' = NoneSent
  /\ heartbeat' = "done"
  /\ hb_failed' = TRUE
  /\ UNCHANGED <<is_running, subscriptions, run, pipeVars, backoff, relayVars>>

\* _heartbeat_loop: the while test fails (_is_running cleared or _ws None).
HeartbeatExits ==
  /\ heartbeat = "active" /\ (~is_running \/ ws = "none")
  /\ heartbeat' = "done"
  /\ UNCHANGED <<is_running, ws, subscriptions, sent, run, pipeVars, backVars, relayVars>>

\* A heartbeat that sends PING and nothing else.
HeartbeatPingOnly ==
  /\ heartbeat = "active" /\ is_running /\ ws = "open"
  /\ UNCHANGED vars

\* _heartbeat_loop: PING is sent on the open socket, then the sequencer state
\* is pruned, then the loop sleeps for the heartbeat interval.
HeartbeatTick ==
  /\ heartbeat = "active" /\ is_running /\ ws = "open"
  /\ PruneOrderbookState

\* stop(): _is_running cleared, heartbeat task cancelled, disconnect(), and the
\* sequencer state cleared.
Stop ==
  /\ is_running' = FALSE
  /\ heartbeat' = IF heartbeat = "active" THEN "done" ELSE heartbeat
  /\ ws' = "none"
  /\ sent' = NoneSent
  /\ ResetOrderbookState(NoToken)
  /\ UNCHANGED <<subscriptions, run, backVars, relayVars, route>>

UpNext ==
  \/ Run
  \/ ConnectOk
  \/ ConnectFails
  \/ BackoffDone
  \/ ResubscribeAll
  \/ ReceiveLoopEnds
  \/ Disconnect
  \/ RemoteClose
  \/ HeartbeatFails
  \/ HeartbeatExits
  \/ Stop
  \/ \E t \in Tokens : Subscribe(t)
  \/ \E t \in Tokens : Unsubscribe(t)

\* ------------------------------------------------------------ dicts of sets
\* d.get(k, set())
Get(d, k) == IF k \in DOMAIN d THEN d[k] ELSE {}

\* d[k] = v
Put(d, k, v) == [x \in DOMAIN d \cup {k} |-> IF x = k THEN v ELSE d[x]]

\* d.pop(k, None)
Pop(d, k) == [x \in DOMAIN d \ {k} |-> d[x]]

Empty == [x \in {} |-> {}]

\* ---------------------------------------------------------------- event bus
\* EventBus.subscribe
BusSubscribe(subs, token_id, callback) ==
  Put(subs, token_id, Get(subs, token_id) \cup {callback})

\* An unsubscribe that leaves the registration in place.
BusUnsubscribeNothing(subs, token_id, callback) == subs

\* An unsubscribe that discards the callback and keeps the key.
BusUnsubscribeKeepsKey(subs, token_id, callback) ==
  IF callback \in Get(subs, token_id)
  THEN Put(subs, token_id, subs[token_id] \ {callback})
  ELSE subs

\* EventBus.unsubscribe
BusUnsubscribe(subs, token_id, callback) ==
  IF callback \in Get(subs, token_id)
  THEN IF Get(subs, token_id) = {callback} THEN Pop(subs, token_id)
       ELSE Put(subs, token_id, subs[token_id] \ {callback})
  ELSE subs

\* EventBus.unsubscribe_all: one key is popped, or, when token_id is None or
\* empty, the map is cleared.
BusUnsubscribeAll(subs, token_id) ==
  IF token_id # NoToken THEN Pop(subs, token_id) ELSE Empty

\* The keys of the bus: the tokens and the wildcard.
Wildcard == "*"
BusKeys == Tokens \cup {Wildcard}

\* The callbacks that are registered on the bus.
Callbacks == {on_event, "on_log"}

\* How an awaited callback ends: it returns, it raises an Exception, or it
\* raises a BaseException that is no Exception (asyncio.CancelledError).
Outcomes == {"ok", "exception", "cancelled"}

\* list(S) of a set: its elements in some order.
Orders(S) ==
  {s \in [1..Cardinality(S) -> S] : \A i, j \in DOMAIN s : s[i] = s[j] => i = j}

\* A snapshot that leaves the wildcard's callbacks out.
CallbackListTokenOnly(subs, token_id) == Orders(Get(subs, token_id))

\* The lists that publish can build in its locked section: the callbacks of
\* the event's token in some order, then those of the wildcard in some order.
CallbackList(subs, token_id) ==
  {a \o b : a \in Orders(Get(subs, token_id)), b \in Orders(Get(subs, Wildcard))}

\* The elements of a list.
Range(list) == {list[i] : i \in DOMAIN list}

\* No call of publish has been made.
NoPublish ==
  [pc |-> "idle", token |-> NoToken, tok |-> {}, wild |-> {}, other |-> {},
   snap |-> <<>>, todo |-> <<>>, invoked |-> <<>>, failed_at |-> 0, last |-> "ok"]

\* publish after its locked section, for an event of token_id with the callback
\* list `callbacks`: tok, wild and other are the callbacks registered under the
\* event's token, under the wildcard, and under other keys only, at that moment.
Snapshot(subs, token_id, callbacks) ==
  [pc |-> IF callbacks = <<>> THEN "returned" ELSE "calling",
   token |-> token_id,
   tok |-> Get(subs, token_id),
   wild |-> Get(subs, Wildcard),
   other |-> UNION {subs[k] : k \in DOMAIN subs}
               \ (Get(subs, token_id) \cup Get(subs, Wildcard)),
   snap |-> callbacks, todo |-> callbacks, invoked |-> <<>>,
   failed_at |-> 0, last |-> "ok"]

\* A loop over the callbacks that has no try: an Exception leaves publish.
AfterCallbackNoCatch(p, outcome) ==
  [p EXCEPT !.pc = IF outcome # "ok" THEN "raised"
                   ELSE IF Tail(p.todo) = <<>> THEN "returned" ELSE "calling",
            !.todo = Tail(p.todo),
            !.invoked = Append(p.invoked, Head(p.todo)),
            !.last = outcome]

\* One turn of the loop of publish: the awaited callback ends with `outcome`;
\* an Exception is logged and the loop goes on, anything else leaves publish.
AfterCallback(p, outcome) ==
  [p EXCEPT !.pc = IF outcome = "cancelled" THEN "raised"
                   ELSE IF Tail(p.todo) = <<>> THEN "returned" ELSE "calling",
            !.todo = Tail(p.todo),
            !.invoked = Append(p.invoked, Head(p.todo)),
            !.failed_at = IF outcome = "exception" /\ p.failed_at = 0
                          THEN Len(p.invoked) + 1 ELSE p.failed_at,
            !.last = outcome]

InitBus == pub = NoPublish

\* A publish that keeps the lock until its loop over the callbacks has ended.
PublishHoldsLockInLoop(p) == p.pc = "calling"

\* Whether the publish with frame p holds EventBus._lock where it is suspended:
\* the async with block ends before the loop over the callbacks, and nothing
\* is awaited inside the block, so wherever publish is suspended the lock is
\* free.
PublishHoldsLock(p) == FALSE

\* EventBus.subscribe(token_id, callback), by any task.
EventBusSubscribe(token_id, callback) ==
  /\ ~PublishHoldsLock(pub)
  /\ subscribers' = BusSubscribe(subscribers, token_id, callback)
  /\ UNCHANGED <<token_connections, connection_tokens, client, fan, pub,
                 orderbook_levels, trade_hist, seqVars, histVars, mgrVars, route, lifeVars,
                 orderVars>>

\* EventBus.unsubscribe(token_id, callback), by any task.
EventBusUnsubscribe(token_id, callback) ==
  /\ ~PublishHoldsLock(pub)
  /\ subscribers' = BusUnsubscribe(subscribers, token_id, callback)
  /\ UNCHANGED <<token_connections, connection_tokens, client, fan, pub,
                 orderbook_levels, trade_hist, seqVars, histVars, mgrVars, route, lifeVars,
                 orderVars>>

\* EventBus.unsubscribe_all(token_id), by any task.
EventBusUnsubscribeAll(token_id) ==
  /\ ~PublishHoldsLock(pub)
  /\ subscribers' = BusUnsubscribeAll(subscribers, token_id)
  /\ UNCHANGED <<token_connections, connection_tokens, client, fan, pub,
                 orderbook_levels, trade_hist, seqVars, histVars, mgrVars, route, lifeVars,
                 orderVars>>

\* publish(event) up to its first awaited callback: the locked snapshot, the
\* token's callbacks first, then the wildcard's.
Publish(token_id) ==
  /\ pub.pc # "calling"
  /\ \E callbacks \in CallbackList(subscribers, token_id) :
       pub' = Snapshot(subscribers, token_id, callbacks)
  /\ UNCHANGED <<relayVars, orderbook_levels, trade_hist, seqVars, histVars, mgrVars, route>>

\* The callback that publish awaits ends.
CallbackEnds(outcome) ==
  /\ pub.pc = "calling"
  /\ pub' = AfterCallback(pub, outcome)
  /\ UNCHANGED <<relayVars, orderbook_levels, trade_hist, seqVars, histVars, mgrVars, route>>

BusNext ==
  \/ \E k \in BusKeys, cb \in Callbacks : EventBusSubscribe(k, cb)
  \/ \E k \in BusKeys, cb \in Callbacks : EventBusUnsubscribe(k, cb)
  \/ \E k \in BusKeys \cup {NoToken} : EventBusUnsubscribeAll(k)
  \/ \E t \in Tokens : Publish(t)
  \/ \E o \in Outcomes : CallbackEnds(o)

\* ------------------------------------------------------------ relay server
\* The relay's three maps as one value.
Relay == [tc |-> token_connections, ct |-> connection_tokens, subs |-> subscribers]

\* An add that records the connection under the token only.
AddToIndexesForwardOnly(R, websocket, token_id) ==
  [R EXCEPT !.tc = Put(R.tc, token_id, Get(R.tc, token_id) \cup {websocket})]

\* The locked section of _add_subscription, and one turn of the locked loop of
\* _subscribe_tokens_bulk.
AddToIndexes(R, websocket, token_id) ==
  [R EXCEPT !.tc = Put(R.tc, token_id, Get(R.tc, token_id) \cup {websocket}),
            !.ct = Put(R.ct, websocket, Get(R.ct, websocket) \cup {token_id})]

\* A remove that discards the connection but keeps the token's entry.
RemoveSubscriptionKeepsEntry(R, token_id, websocket) ==
  [R EXCEPT !.tc = IF token_id \in DOMAIN R.tc
                   THEN Put(R.tc, token_id, R.tc[token_id] \ {websocket}) ELSE R.tc,
            !.ct = IF websocket \in DOMAIN R.ct
                   THEN Put(R.ct, websocket, R.ct[websocket] \ {token_id}) ELSE R.ct]

\* _remove_subscription(token_id, websocket)
RemoveSubscription(R, token_id, websocket) ==
  LET connections == Get(R.tc, token_id)
      left == connections \ {websocket}
      should_unsubscribe == connections # {} /\ left = {}
  IN  [tc |-> IF connections = {} THEN R.tc
              ELSE IF left = {} THEN Pop(R.tc, token_id)
              ELSE Put(R.tc, token_id, left),
       ct |-> IF Get(R.ct, websocket) # {}
              THEN Put(R.ct, websocket, R.ct[websocket] \ {token_id}) ELSE R.ct,
       subs |-> IF should_unsubscribe THEN BusUnsubscribe(R.subs, token_id, on_event)
                ELSE R.subs]

RECURSIVE RemoveAll(_, _, _)
\* for token_id in tokens: await self._remove_subscription(token_id, websocket)
RemoveAll(R, tokens, websocket) ==
  IF tokens = {} THEN R
  ELSE LET t == CHOOSE x \in tokens : TRUE
       IN  RemoveAll(RemoveSubscription(R, t, websocket), tokens \ {t}, websocket)

\* A cleanup that leaves the connection where it is.
CleanupNothing(R, websocket) == R

\* _cleanup_connection(websocket)
CleanupConnection(R, websocket) ==
  RemoveAll([R EXCEPT !.ct = Pop(R.ct, websocket)], Get(R.ct, websocket), websocket)

\* An _on_event that keeps the relay's lock until its sends have ended.
LocksHeldByOnEvent(f) == IF f = {} THEN {} ELSE {"relay"}

\* The locks (ForwardServer._lock: relay, EventBus._lock: bus) that are held
\* while the sends of the fan-out f are pending: publish leaves its async with
\* block before it awaits _on_event, _on_event leaves its own before it
\* gathers the sends, and _send_safe takes no lock around its send.
LocksHeld(f) == {}

\* The step takes the relay's lock and, where it changes the bus, the lock of
\* the bus; it can be taken when no task holds a lock across an await.
LocksFree == LocksHeld(fan) = {}

\* The relay's maps become R.
Becomes(R) ==
  /\ token_connections' = R.tc
  /\ connection_tokens' = R.ct
  /\ subscribers' = R.subs

\* A connection: its socket (none, open, closed), the position of its handler
\* task (none: not started, recv: awaiting a message, respond: awaiting the send
\* of a reply, bulk: in the sleep of the upstream loop of
\* _subscribe_tokens_bulk, raise: an exception is unwinding to _handle_client,
\* ended), the new tokens still to subscribe upstream, whether the bulk
\* subscribe runs under the try of _handle_subscribe_category, whether the
\* connection held subscriptions when its handler ended, the error code that
\* _send_error is sending (NoError: the reply is not an error), and the error
\* frames written to the socket so far.
NoError == ""

NoClient == [sock |-> "none", pc |-> "none", todo |-> <<>>, guarded |-> FALSE,
             had |-> FALSE, error |-> NoError, errors |-> 0]

At(c, pc) == [client EXCEPT ![c].pc = pc, ![c].todo = <<>>, ![c].guarded = FALSE]

\* No client has connected.
NoConnections ==
  /\ subscribers = Empty
  /\ token_connections = Empty
  /\ connection_tokens = Empty
  /\ client = [c \in Conns |-> NoClient]
  /\ fan = {}
  /\ event_count = [t \in Tokens |-> 0]
  /\ delivered = [c \in Conns |-> <<>>]

\* start() has returned: the relay listens.
Started ==
  /\ server = "listening"
  /\ relay_is_running = TRUE
  /\ listeners = 1

\* The relay once started, before any client connects.
InitRelay == NoConnections /\ Started

\* The relay as built: start() has not been called.
NotStarted ==
  /\ server = "none"
  /\ relay_is_running = FALSE
  /\ listeners = 0

\* The receive loop of _handle_client takes the next message of c and gives
\* it to _process_message.
Receives(c) == client[c].pc = "recv" /\ relay_is_running

\* A client connects: _handle_client records the connection.
ClientConnects(c) ==
  /\ server = "listening" /\ LocksFree
  /\ client[c].pc = "none"
  /\ client' = [client EXCEPT ![c].sock = "open", ![c].pc = "recv"]
  /\ connection_tokens' = Put(connection_tokens, c, {})
  /\ UNCHANGED <<subscribers, token_connections, fan, mgrVars, pipeVars, lifeVars, orderVars>>

\* The client closes its end, or the connection drops.
ClientCloses(c) ==
  /\ client[c].sock = "open"
  /\ client' = [client EXCEPT ![c].sock = "closed"]
  /\ UNCHANGED <<subscribers, token_connections, connection_tokens, fan,
                 mgrVars, pipeVars, lifeVars, orderVars>>

\* {"action": "subscribe", "token_id": t}: _add_subscription, up to the send of
\* the reply.  The first subscriber of the token registers the relay on the bus
\* and subscribes the token upstream.
ClientSubscribe(c, t) ==
  /\ Receives(c) /\ LocksFree
  /\ Becomes(LET R == AddToIndexes(Relay, c, t)
             IN  IF Get(token_connections, t) = {}
                 THEN [R EXCEPT !.subs = BusSubscribe(R.subs, t, on_event)] ELSE R)
  /\ IF Get(token_connections, t) = {}
     THEN /\ ManagerSubscribe(t)
          /\ client' = At(c, IF SubscribeRaised THEN "raise" ELSE "respond")
     ELSE /\ client' = At(c, "respond")
          /\ UNCHANGED <<ws, subscriptions, sent>>
  /\ UNCHANGED <<fan, is_running, run, heartbeat, backVars, pipeVars, lifeVars, orderVars>>

\* token_ids after _get_token_ids: no empty and no repeated element.
TokenLists ==
  {<<>>} \cup {<<t>> : t \in Tokens}
    \cup {l \in {<<t, u>> : t \in Tokens, u \in Tokens} : l[1] # l[2]}

RECURSIVE AddAll(_, _, _)
\* The locked loop of _subscribe_tokens_bulk.
AddAll(R, websocket, token_ids) ==
  IF token_ids = <<>> THEN R
  ELSE AddAll(AddToIndexes(R, websocket, Head(token_ids)), websocket, Tail(token_ids))

RECURSIVE BusSubscribeAll(_, _)
\* for token_id in new_tokens: await self._event_bus.subscribe(...)
BusSubscribeAll(subs, new_tokens) ==
  IF new_tokens = <<>> THEN subs
  ELSE BusSubscribeAll(BusSubscribe(subs, Head(new_tokens), on_event), Tail(new_tokens))

\* After an upstream subscribe in the bulk loop: on ConnectionClosed the
\* handler unwinds (subscribe_batch) or replies with an error
\* (subscribe_category); else it sleeps with the rest of new_tokens to do.
AfterUpstream(c, rest, guarded) ==
  client' = IF SubscribeRaised
            THEN At(c, IF guarded THEN "respond" ELSE "raise")
            ELSE [client EXCEPT ![c].pc = "bulk", ![c].todo = rest,
                                ![c].guarded = guarded]

\* {"action": "subscribe_batch", "token_ids": [...]} (guarded = FALSE) and
\* subscribe_category / subscribe_all once the token ids have been read from
\* the database (guarded = TRUE): _subscribe_tokens_bulk up to the sleep that
\* follows the first upstream subscribe.
ClientSubscribeBulk(c, token_ids, guarded) ==
  /\ Receives(c) /\ LocksFree
  /\ token_ids = <<>> => guarded
  /\ LET new_tokens == SelectSeq(token_ids, LAMBDA t : Get(token_connections, t) = {})
         R == AddAll(Relay, c, token_ids)
     IN  /\ Becomes([R EXCEPT !.subs = BusSubscribeAll(R.subs, new_tokens)])
         /\ IF new_tokens = <<>>
            THEN /\ client' = At(c, "respond")
                 /\ UNCHANGED <<ws, subscriptions, sent>>
            ELSE /\ ManagerSubscribe(Head(new_tokens))
                 /\ AfterUpstream(c, Tail(new_tokens), guarded)
  /\ UNCHANGED <<fan, is_running, run, heartbeat, backVars, pipeVars, lifeVars, orderVars>>

\* The upstream loop of _subscribe_tokens_bulk resumes from its sleep.
BulkUpstream(c) ==
  /\ client[c].pc = "bulk"
  /\ IF client[c].todo = <<>>
     THEN /\ client' = At(c, "respond")
          /\ UNCHANGED <<ws, subscriptions, sent>>
     ELSE /\ ManagerSubscribe(Head(client[c].todo))
          /\ AfterUpstream(c, Tail(client[c].todo), client[c].guarded)
  /\ UNCHANGED <<subscribers, token_connections, connection_tokens, fan,
                 is_running, run, heartbeat, backVars, pipeVars, lifeVars, orderVars>>

\* {"action": "unsubscribe", "token_id": t}: _remove_subscription, up to the
\* send of the reply.
ClientUnsubscribe(c, t) ==
  /\ Receives(c) /\ LocksFree
  /\ Becomes(RemoveSubscription(Relay, t, c))
  /\ client' = At(c, "respond")
  /\ UNCHANGED <<fan, mgrVars, pipeVars, lifeVars, orderVars>>

\* Any message that changes no subscription and is not rejected (ping,
\* list_markets): only a reply is sent.
ClientOther(c) ==
  /\ Receives(c)
  /\ client' = At(c, "respond")
  /\ UNCHANGED <<subscribers, token_connections, connection_tokens, fan,
                 mgrVars, pipeVars, lifeVars, orderVars>>

\* ---- client frames
\* str.strip() on the strings a client sends as token ids.
Strip(str) == IF str = " " THEN "" ELSE IF str = " T2" THEN "T2" ELSE str

\* _get_token_id(message), given what the message holds under token_id and
\* under token; NoToken stands for the None it returns.
GetTokenId(token_id, token) ==
  LET first == IF token_id \in {Absent, Null, ""} THEN token ELSE token_id
  IN  IF first \in {Absent, Null} THEN NoToken ELSE Strip(first)

RECURSIVE Deduplicated(_, _)
\* The loop of _get_token_ids: nulls, empty strings and repetitions are left
\* out.
Deduplicated(items, result) ==
  IF items = <<>> THEN result
  ELSE LET item == Head(items)
           token_id == Strip(item)
       IN  IF item = Null \/ token_id = "" \/ token_id \in Range(result)
           THEN Deduplicated(Tail(items), result)
           ELSE Deduplicated(Tail(items), Append(result, token_id))

\* What a message holds under token_ids: nothing, null, a value that is not
\* a list, or a list.
NoIds == [kind |-> "absent", items |-> <<>>]

IdsItems == {Null, " ", "T1", " T2"}

IdsValues ==
  {NoIds, [kind |-> "null", items |-> <<>>], [kind |-> "string", items |-> <<>>]}
    \cup {[kind |-> "list", items |-> l] :
            l \in {<<>>} \cup {<<a>> : a \in IdsItems}
                        \cup {<<a, b>> : a \in IdsItems, b \in IdsItems}}

\* _get_token_ids(message): valid is false for the None it returns.
GetTokenIds(token_ids) ==
  IF token_ids.kind # "list" THEN [valid |-> FALSE, list |-> <<>>]
  ELSE [valid |-> TRUE, list |-> Deduplicated(token_ids.items, <<>>)]

\* The frames a client sends: text that is not JSON, JSON that is not an
\* object, and objects with an action and the keys the action reads.
ClientFrames ==
  {[json |-> j, action |-> Absent, token_id |-> Absent, token |-> Absent,
    token_ids |-> NoIds] : j \in {"invalid", "array"}}
  \cup {[json |-> "object", action |-> a, token_id |-> t, token |-> u,
         token_ids |-> NoIds] :
          a \in {"subscribe", "SUBSCRIBE", "unsubscribe"},
          t \in {Absent, Null, "", " ", "T1"}, u \in {Absent, " T2"}}
  \cup {[json |-> "object", action |-> "subscribe_batch", token_id |-> Absent,
         token |-> Absent, token_ids |-> i] : i \in IdsValues}
  \cup {[json |-> "object", action |-> a, token_id |-> Absent, token |-> Absent,
         token_ids |-> NoIds] : a \in {Absent, Null, "bogus", "ping", "subscribe_all"}}

\* str(message.get("action", "")).lower()
ActionOf(value) ==
  IF value = Absent THEN "" ELSE IF value = Null THEN "none" ELSE Lower(value)

Outcome(do, code, token_id, token_ids) ==
  [do |-> do, code |-> code, token_id |-> token_id, token_ids |-> token_ids]

\* _process_message(websocket, raw_message) up to the call it makes: an error
\* reply with a code, the exception of .get on JSON that is not an object, or
\* one of the subscription operations.
ProcessMessage(frame) ==
  LET action == ActionOf(frame.action)
      token_id == GetTokenId(frame.token_id, frame.token)
      token_ids == GetTokenIds(frame.token_ids)
  IN  IF frame.json = "invalid" THEN Outcome("error", "invalid_json", NoToken, <<>>)
      ELSE IF frame.json = "array" THEN Outcome("raise", NoError, NoToken, <<>>)
      ELSE IF action = "subscribe"
           THEN IF token_id = NoToken
                THEN Outcome("error", "invalid_token_id", NoToken, <<>>)
                ELSE Outcome("subscribe", NoError, token_id, <<>>)
      ELSE IF action = "subscribe_batch"
           THEN IF ~token_ids.valid
                THEN Outcome("error", "invalid_token_ids", NoToken, <<>>)
                ELSE IF token_ids.list = <<>>
                     THEN Outcome("error", "empty_token_ids", NoToken, <<>>)
                     ELSE Outcome("batch", NoError, NoToken, token_ids.list)
      ELSE IF action = "unsubscribe"
           THEN IF token_id = NoToken
                THEN Outcome("error", "invalid_token_id", NoToken, <<>>)
                ELSE Outcome("unsubscribe", NoError, token_id, <<>>)
      ELSE IF action \in {"subscribe_category", "subscribe_all"}
           THEN Outcome("category", NoError, NoToken, <<>>)
      ELSE IF action \in {"list_markets", "ping"}
           THEN Outcome("other", NoError, NoToken, <<>>)
      ELSE Outcome("error", "unsupported_action", NoToken, <<>>)

\* An error reply that goes to every connection.
SendErrorToAll(cl, websocket, error) ==
  [d \in DOMAIN cl |-> [cl[d] EXCEPT !.pc = "respond", !.error = error]]

\* _send_error(websocket, error), up to its send.
SendError(cl, websocket, error) ==
  [cl EXCEPT ![websocket].pc = "respond", ![websocket].error = error]

\* The receive loop of _handle_client gives a frame of c to _process_message.
ClientFrame(c, frame) ==
  /\ Receives(c)
  /\ LET o == ProcessMessage(frame)
     IN  \/ /\ o.do = "error"
            /\ client[c].errors < MaxErrors
            /\ client' = SendError(client, c, o.code)
            /\ UNCHANGED <<subscribers, token_connections, connection_tokens, fan,
                           lifeVars, mgrVars, pipeVars, orderVars>>
         \/ /\ o.do = "raise"
            /\ client' = At(c, "raise")
            /\ UNCHANGED <<subscribers, token_connections, connection_tokens, fan,
                           lifeVars, mgrVars, pipeVars, orderVars>>
         \/ o.do = "subscribe" /\ ClientSubscribe(c, o.token_id)
         \/ o.do = "unsubscribe" /\ ClientUnsubscribe(c, o.token_id)
         \/ o.do = "batch" /\ ClientSubscribeBulk(c, o.token_ids, FALSE)
         \/ o.do = "category" /\ \E l \in TokenLists : ClientSubscribeBulk(c, l, TRUE)
         \/ o.do = "other" /\ ClientOther(c)

\* The handler task of c ends: the finally clause of _handle_client.
Ended(c) ==
  [client EXCEPT ![c].pc = "ended", ![c].todo = <<>>, ![c].guarded = FALSE,
                 ![c].had = Get(connection_tokens, c) # {}]

\* The send of the reply: it returns and the handler awaits the next message,
\* or the socket is closed, ConnectionClosed unwinds and the handler ends.
\* _send_error swallows the ConnectionClosed of its send: the handler goes on
\* to its receive loop.
Respond(c) ==
  /\ client[c].pc = "respond"
  /\ IF client[c].sock = "open" \/ client[c].error # NoError
     THEN /\ client' = [At(c, "recv") EXCEPT
                          ![c].error = NoError,
                          ![c].errors = IF client[c].error # NoError
                                           /\ client[c].sock = "open"
                                        THEN @ + 1 ELSE @]
          /\ UNCHANGED <<subscribers, token_connections, connection_tokens>>
     ELSE /\ LocksFree
          /\ client' = Ended(c)
          /\ Becomes(CleanupConnection(Relay, c))
  /\ UNCHANGED <<fan, mgrVars, pipeVars, lifeVars, orderVars>>

\* The receive loop of _handle_client ends on the closed socket, or breaks at
\* the next message once the relay is stopped, or the
\* exception of the upstream subscribe reaches _handle_client: finally.
HandlerEnds(c) ==
  /\ \/ client[c].pc = "recv" /\ client[c].sock = "closed"
     \/ client[c].pc = "recv" /\ ~relay_is_running
     \/ client[c].pc = "raise"
  /\ LocksFree
  /\ client' = Ended(c)
  /\ Becomes(CleanupConnection(Relay, c))
  /\ UNCHANGED <<fan, mgrVars, pipeVars, lifeVars, orderVars>>

\* One send per connection that has a subscription, to whatever token.
SendsToSubscribed(token_id, n) ==
  {<<c, IF n = 0 THEN NoToken ELSE token_id, n>> : c \in DOMAIN connection_tokens}

\* _on_event(event): the connections of the event's token are listed and
\* one _send_safe per connection is started, for event number n of the token.
Sends(token_id, n) ==
  {<<c, IF n = 0 THEN NoToken ELSE token_id, n>> : c \in Get(token_connections, token_id)}

\* A send to connection c is pending in f.
Pending(f, c) == \E p \in f : p[1] = c

\* EventBus.publish of an event of token t reaches _on_event; the event is
\* not numbered.
OnEvent(t) ==
  /\ on_event \in Get(subscribers, t) /\ LocksFree
  /\ fan' = fan \cup Sends(t, 0)
  /\ UNCHANGED <<subscribers, token_connections, connection_tokens, client,
                 mgrVars, pipeVars, lifeVars, orderVars>>

\* The frame of event n of the token has been written to the socket of c.
Written(log, c, token_id, n) ==
  IF n = 0 THEN log ELSE [log EXCEPT ![c] = Append(@, <<token_id, n>>)]

\* _send_safe(c, message): the send returns, or raises ConnectionClosed and
\* the connection is cleaned up.
SendSafe(c) ==
  \E p \in fan :
    /\ p[1] = c
    /\ fan' = fan \ {p}
    /\ IF client[c].sock = "open"
       THEN /\ delivered' = Written(delivered, c, p[2], p[3])
            /\ UNCHANGED <<subscribers, token_connections, connection_tokens>>
       ELSE /\ LocksFree
            /\ Becomes(CleanupConnection(Relay, c))
            /\ UNCHANGED delivered
    /\ UNCHANGED <<client, mgrVars, pipeVars, lifeVars, event_count>>

\* ---- from the receive loop to the clients
\* A publish that starts the sends and returns.
PublishDetached(f) == TRUE

\* The receive loop of the manager takes its next message once the handler of
\* the last one has returned: the handler has awaited publish, publish has
\* awaited _on_event, and _on_event has awaited every send of its fan-out.
PublishAwaited(f) == f = {}

\* The snapshots of token T1, with any sequence number under the key seq.
OrderMessages ==
  {m \in BookMessages :
     m.token = "T1" /\ m.type = "snapshot" /\ m.sequence = None}

\* The receive loop gives its next message to handle_orderbook_message.
ReceiveBook(m) ==
  /\ PublishAwaited(fan)
  /\ event_count[m.token] < MaxEvents
  /\ HandleOrderbookMessage(m)

\* await db.upsert_orderbook(snapshot) returns: the state of the token is
\* stored and the forward event is published; the relay's callback, if it is
\* registered for the token, starts the sends of the event.
UpsertReturnsPublishes ==
  /\ UpsertReturned
  /\ event_count' = [event_count EXCEPT ![h.token] = @ + 1]
  /\ fan' = IF on_event \in Get(subscribers, h.token)
            THEN fan \cup Sends(h.token, event_count[h.token] + 1) ELSE fan
  /\ UNCHANGED <<mgrVars, subscribers, token_connections, connection_tokens, client,
                 lifeVars, delivered>>

\* start() called where self._server is server: it goes on to websockets.serve
\* only if no server is recorded.
StartAlways(srv) == TRUE

StartAllowed(srv) == srv = "none"

RECURSIVE BusUnsubscribeEach(_, _)
\* for token in tokens: await self._event_bus.unsubscribe(token, self._on_event)
BusUnsubscribeEach(subs, tokens) ==
  IF tokens = {} THEN subs
  ELSE LET t == CHOOSE x \in tokens : TRUE
       IN  BusUnsubscribeEach(BusUnsubscribe(subs, t, on_event), tokens \ {t})

\* The end of stop(): both indexes are cleared and the relay's callback is
\* unsubscribed from every token that was a key of token_connections.
ClearSubscriptions ==
  /\ LocksFree
  /\ token_connections' = Empty
  /\ connection_tokens' = Empty
  /\ subscribers' = BusUnsubscribeEach(subscribers, DOMAIN token_connections)

\* start(): websockets.serve opens the listening socket.  The calls of start
\* and stop are made by one task, one after the other.
Start ==
  /\ server # "closing"
  /\ listeners < MaxListeners
  /\ IF StartAllowed(server)
     THEN /\ relay_is_running' = TRUE
          /\ server' = "listening"
          /\ listeners' = listeners + 1
     ELSE UNCHANGED lifeVars
  /\ UNCHANGED <<subscribers, token_connections, connection_tokens, client, fan,
                 mgrVars, pipeVars, orderVars>>

\* stop() up to its await of wait_closed: the listening socket is closed and
\* so is every open connection.  Where no server is recorded, stop() runs to
\* its end.
StopBegins ==
  /\ server # "closing"
  /\ relay_is_running' = FALSE
  /\ IF server = "listening"
     THEN /\ server' = "closing"
          /\ listeners' = listeners - 1
          /\ client' = [c \in Conns |->
                          IF client[c].sock = "open"
                          THEN [client[c] EXCEPT !.sock = "closed"] ELSE client[c]]
          /\ UNCHANGED <<subscribers, token_connections, connection_tokens>>
     ELSE /\ ClearSubscriptions
          /\ UNCHANGED <<server, listeners, client>>
  /\ UNCHANGED <<fan, mgrVars, pipeVars, orderVars>>

\* wait_closed returns once every connection handler has ended; stop() runs
\* to its end.
StopEnds ==
  /\ server = "closing"
  /\ \A c \in Conns : client[c].pc \in {"none", "ended"}
  /\ server' = "none"
  /\ ClearSubscriptions
  /\ UNCHANGED <<relay_is_running, listeners, client, fan, mgrVars, pipeVars, orderVars>>

RelayNext ==
  \/ \E c \in Conns : ClientConnects(c)
  \/ \E c \in Conns : ClientCloses(c)
  \/ \E c \in Conns, t \in Tokens : ClientSubscribe(c, t)
  \/ \E c \in Conns, l \in TokenLists, g \in BOOLEAN : ClientSubscribeBulk(c, l, g)
  \/ \E c \in Conns : BulkUpstream(c)
  \/ \E c \in Conns, t \in Tokens : ClientUnsubscribe(c, t)
  \/ \E c \in Conns : ClientOther(c)
  \/ \E c \in Conns : Respond(c)
  \/ \E c \in Conns : HandlerEnds(c)
  \/ \E t \in Tokens : OnEvent(t)
  \/ \E c \in Conns : SendSafe(c)
  \/ RemoteClose

\* ------------------------------------------------------- specifications
\* Each history is recorded in the specification that reads it: snap_seen
\* where no token is tracked, acc and upd_chain for the tracked token.
\* The tables and the bus at start: nothing stored, no trade followed, no call
\* of publish made.
InitStore == orderbook_levels = NoLevels /\ trade_hist = NoTradeHist /\ InitBus

\* The manager is built with reconnect delays of one second.
InitBackoff == backoff = Backoff(1, 1)

InitSeq ==
  InitPipeline /\ tracked = NoToken /\ InitManager /\ InitBackoff /\ InitRelay
  /\ InitStore

InitHist ==
  InitPipeline /\ tracked \in Tokens /\ InitManager /\ InitBackoff /\ InitRelay
  /\ InitStore

Init == InitSeq

\* The order-book sequencer fed by one receive loop, with the heartbeat's
\* prune and the manager's resets interleaved.
SpecSeq == InitSeq /\ [][SeqNext]_vars

\* Snapshots that carry no sequence number.
PruneMessages ==
  {m \in BookMessages :
     m.token # NoToken /\ m.type = "snapshot" /\ m.seq = None /\ m.sequence = None}

PruneNext ==
  \/ TickWithin
  \/ \E m \in PruneMessages : HandleOrderbookMessage(m)
  \/ UpsertReturns
  \/ PruneOrderbookState

\* The prune passes of the handler and of the heartbeat over entries that
\* snapshots create, on a clock that is read at every second.
SpecPrune == InitSeq /\ [][PruneNext]_vars

\* The receive loop gives a snapshot to the handler while the socket is open.
ReceiveSnapshot(m) == ws = "open" /\ HandleOrderbookMessage(m)

BeatNext ==
  \/ TickWithin
  \/ \E m \in PruneMessages : ReceiveSnapshot(m)
  \/ UpsertReturns
  \/ HeartbeatTick
  \/ HeartbeatFails

\* The heartbeat keeps ticking: the task wakes from its sleep, and as long as
\* its sends of PING can succeed one of them does.
BeatFairness == WF_vars(HeartbeatTick)

\* The same, recording the accepted sequences of one token (any one).
SpecSeqHist == InitHist /\ [][SeqNext]_vars

\* The trade handler fed by one receive loop.
SpecTrade == InitSeq /\ [][TradeNext]_vars

Next == SeqNext \/ TradeNext

\* The receive loop's two handlers together.
Spec == Init /\ [][Next]_vars

\* The upstream session: run(), its heartbeat task, the socket, and the tasks
\* that call subscribe, unsubscribe and stop.
SpecUp == InitSeq /\ [][UpNext]_vars

\* The event bus: tasks that subscribe, unsubscribe and clear, and one
\* publisher at a time.
SpecBus == InitSeq /\ [][BusNext]_vars

\* The router given one message after another.
SpecRoute == InitSeq /\ [][RouteNext]_vars

\* The relay's clients sending frames of any form, over a manager that is
\* not started.
RejectNext ==
  \/ \E c \in Conns : ClientConnects(c)
  \/ \E c \in Conns : ClientCloses(c)
  \/ \E c \in Conns, f \in ClientFrames : ClientFrame(c, f)
  \/ \E c \in Conns : BulkUpstream(c)
  \/ \E c \in Conns : Respond(c)
  \/ \E c \in Conns : HandlerEnds(c)

SpecReject == InitSeq /\ [][RejectNext]_vars

\* The table of order-book levels under upsert_orderbook.
SpecBook == InitSeq /\ [][BookNext]_vars

\* The trade handler, with what happens to one trade_id (any one) recorded.
InitTradeHist ==
  /\ InitPipeline /\ tracked = NoToken /\ InitManager /\ InitBackoff /\ InitRelay
  /\ orderbook_levels = NoLevels /\ InitBus
  /\ trade_hist \in {[NoTradeHist EXCEPT !.id = i] : i \in TradeIds}

SpecTradeHist == InitTradeHist /\ [][TradeNext]_vars

\* The upstream session of a manager built with any reconnect delays
\* (reconnect_delay at most max_reconnect_delay).
InitDelays ==
  /\ InitPipeline /\ tracked = NoToken /\ InitManager /\ InitRelay /\ InitStore
  /\ backoff \in {Backoff(i, m) : i \in 1..MaxDelay, m \in 1..MaxDelay}
  /\ backoff.initial <= backoff.max

SpecBackoff == InitDelays /\ [][UpNext]_vars

\* The same under fair scheduling of the tasks: what the event loop owes to
\* run() and to the heartbeat task.  A connect attempt ends (it succeeds or
\* fails), a sleep ends, a loop over a socket that is closed ends, a cancelled
\* or finished task ends.  Nothing is owed by the peer: that it sends a
\* message or closes the socket is not a matter of scheduling.
RunFairness ==
  /\ WF_vars(ConnectOk \/ ConnectFails)
  /\ WF_vars(BackoffDone)
  /\ WF_vars(ResubscribeAll)
  /\ WF_vars(ReceiveLoopEnds /\ ws # "open")
  /\ WF_vars(Disconnect)
  /\ WF_vars(HeartbeatExits)

SpecUpFair == InitSeq /\ [][UpNext]_vars /\ RunFairness

\* The manager while run() is in its receive loop on an open socket.
Streaming ==
  /\ is_running = TRUE
  /\ ws = "open"
  /\ subscriptions = <<>>
  /\ sent = NoneSent
  /\ run = RunAt("receive")
  /\ heartbeat = "active"
  /\ hb_failed = FALSE

\* The manager while run() is in its receive loop on an open socket, after
\* subscribe has been called for some tokens (in any order) and has sent their
\* frames.
StreamingSubscribed ==
  /\ is_running = TRUE
  /\ ws = "open"
  /\ subscriptions \in TokenLists
  /\ sent = [t \in Tokens |-> [c \in Channels |->
                IF t \in Live(subscriptions) THEN 1 ELSE 0]]
  /\ run = RunAt("receive")
  /\ heartbeat = "active"
  /\ hb_failed = FALSE

\* The sequencer under the heartbeat of one upstream connection: run() is in
\* its receive loop, snapshots arrive or not, and the heartbeat task sends
\* PING and prunes until a send fails.
InitBeat ==
  /\ InitPipeline /\ tracked = NoToken
  /\ Streaming /\ InitBackoff /\ InitRelay /\ InitStore

SpecBeat == InitBeat /\ [][BeatNext]_vars /\ BeatFairness

\* The receive loop's order-book handler while other tasks call unsubscribe on
\* the streaming manager.
InitUnsub ==
  /\ InitPipeline /\ tracked = NoToken
  /\ StreamingSubscribed /\ InitBackoff
  /\ InitRelay /\ InitStore

UnsubNext ==
  \/ \E m \in BookMessages : HandleOrderbookMessage(m)
  \/ UpsertReturns
  \/ \E t \in Tokens : Unsubscribe(t)

SpecUnsub == InitUnsub /\ [][UnsubNext]_vars

InitRelaySpec ==
  /\ InitPipeline /\ tracked = NoToken
  /\ InitManager \/ Streaming
  /\ InitBackoff
  /\ InitRelay
  /\ InitStore

\* The relay and its clients, over a manager that is not started or is
\* streaming.
SpecRelay == InitRelaySpec /\ [][RelayNext]_vars

FanNext ==
  \/ \E c \in Conns : ClientConnects(c)
  \/ \E c \in Conns : ClientCloses(c)
  \/ \E c \in Conns, t \in Tokens : ClientSubscribe(c, t)
  \/ \E c \in Conns, t \in Tokens : ClientUnsubscribe(c, t)
  \/ \E c \in Conns : Respond(c)
  \/ \E c \in Conns : HandlerEnds(c)
  \/ \E t \in Tokens : OnEvent(t)
  \/ \E c \in Conns : SendSafe(c)

\* The fan-out of the relay while its clients subscribe one token at a time,
\* unsubscribe and drop, over a manager that is not started.
SpecFan == InitSeq /\ [][FanNext]_vars

\* The order-book messages of the receive loop on their way to the relay's
\* clients, which connect, subscribe and drop meanwhile.  At the start one
\* client is subscribed to every token and the manager streams them.
InitOrder ==
  /\ InitPipeline /\ tracked = NoToken
  /\ StreamingSubscribed /\ Live(subscriptions) = Tokens /\ InitBackoff
  /\ subscribers = [t \in Tokens |-> {on_event}]
  /\ \E c \in {"c1"} :
       /\ token_connections = [t \in Tokens |-> {c}]
       /\ connection_tokens = [d \in {c} |-> Tokens]
       /\ client = [d \in Conns |->
                      IF d = c THEN [NoClient EXCEPT !.sock = "open", !.pc = "recv"]
                      ELSE NoClient]
  /\ fan = {}
  /\ event_count = [t \in Tokens |-> 0]
  /\ delivered = [d \in Conns |-> <<>>]
  /\ Started
  /\ orderbook_levels = NoLevels /\ trade_hist = NoTradeHist /\ pub = NoPublish

OrderNext ==
  \/ \E m \in OrderMessages : ReceiveBook(m)
  \/ UpsertReturnsPublishes
  \/ UpsertRaises
  \/ \E c \in Conns : SendSafe(c)
  \/ \E c \in Conns : ClientConnects(c)
  \/ \E c \in Conns, t \in Tokens : ClientSubscribe(c, t)
  \/ \E c \in Conns : Respond(c)
  \/ \E c \in Conns : ClientCloses(c)
  \/ \E c \in Conns : HandlerEnds(c)

SpecOrder == InitOrder /\ [][OrderNext]_vars

\* The relay with each of its two clients subscribed to a token of its own,
\* over a manager that streams both tokens.
InitFrames ==
  /\ InitPipeline /\ tracked = NoToken
  /\ StreamingSubscribed /\ Live(subscriptions) = Tokens /\ InitBackoff
  /\ subscribers = [t \in Tokens |-> {on_event}]
  /\ token_connections = [t \in Tokens |-> {IF t = "T1" THEN "c1" ELSE "c2"}]
  /\ connection_tokens = [d \in Conns |-> {IF d = "c1" THEN "T1" ELSE "T2"}]
  /\ client = [d \in Conns |-> [NoClient EXCEPT !.sock = "open", !.pc = "recv"]]
  /\ fan = {}
  /\ event_count = [t \in Tokens |-> 0]
  /\ delivered = [d \in Conns |-> <<>>]
  /\ Started
  /\ orderbook_levels = NoLevels /\ trade_hist = NoTradeHist /\ pub = NoPublish

FramesNext ==
  \/ \E m \in PruneMessages : ReceiveBook(m)
  \/ UpsertReturnsPublishes
  \/ \E c \in Conns : SendSafe(c)
  \/ \E c \in Conns, t \in Tokens : ClientSubscribe(c, t)
  \/ \E c \in Conns : Respond(c)

\* The snapshots of every token on their way from the manager to the relay's
\* clients, which subscribe to further tokens meanwhile.
SpecFrames == InitFrames /\ [][FramesNext]_vars

\* The relay from before its start to after its stop, over a manager that
\* streams token T1: T1 is in the upstream registry and the sequencer holds
\* the state of its last snapshot.
InitLife ==
  /\ now = 0
  /\ orderbook_state =
       [t \in Tokens |-> IF t = "T1" THEN OrderbookState(1, TRUE, 0) ELSE NoEntry]
  /\ orderbook_message_count = 1
  /\ h = Idle
  /\ db_trades = {}
  /\ snap_seen = [t \in Tokens |-> t = "T1"]
  /\ tracked = NoToken
  /\ acc = None
  /\ upd_chain = <<>>
  /\ route = NoRoute
  /\ StreamingSubscribed /\ subscriptions = <<"T1">>
  /\ InitBackoff
  /\ NoConnections /\ NotStarted
  /\ InitStore

LifeNext ==
  \/ RelayNext
  \/ Start
  \/ StopBegins
  \/ StopEnds

SpecLife == InitLife /\ [][LifeNext]_vars

\* ------------------------------------------------------------- claims
\* An l2update of token t arrives (the handler runs up to its decision).
L2UpdateArrives(m) ==
  m.type = "l2update" /\ m.token # NoToken /\ HandleOrderbookMessage(m)

\* C1 (as stated): an l2update is persisted or published only if a snapshot of
\* its token was accepted earlier, and an l2update that arrives while its token
\* has no state or has_snapshot = false causes no persistence call, no forward
\* event and no change of the sequencer state.
C1_Original ==
  [][/\ (UpsertReturns /\ h.type = "l2update") => snap_seen[h.token]
     /\ \A m \in BookMessages :
          (/\ m.type = "l2update" /\ m.token # NoToken
           /\ ~orderbook_state[m.token].has_snapshot
           /\ L2UpdateArrives(m))
            => /\ h'.pc = "idle"
               /\ ~h'.published
               /\ orderbook_state' = orderbook_state]_vars

\* C1 (amended): as C1, but the state map may lose entries: the dropped
\* l2update creates or modifies no entry, and entries disappear only when the
\* message is the one on which the periodic prune pass runs.
C1_Amended ==
  [][/\ (UpsertReturns /\ h.type = "l2update") => snap_seen[h.token]
     /\ \A m \in BookMessages :
          (/\ m.type = "l2update" /\ m.token # NoToken
           /\ ~orderbook_state[m.token].has_snapshot
           /\ L2UpdateArrives(m))
            => /\ h'.pc = "idle"
               /\ ~h'.published
               /\ \A t \in Tokens :
                    orderbook_state'[t] \in {orderbook_state[t], NoEntry}
               /\ orderbook_message_count + 1 < ORDERBOOK_PRUNE_INTERVAL
                    => orderbook_state' = orderbook_state]_vars

\* An l2update was dropped for want of a snapshot, after a snapshot of some
\* token had been accepted.
C1_Witness ==
  h.result = "drop_no_snapshot" /\ \E t \in Tokens : snap_seen[t]

\* C2: an l2update carrying an integer sequence s <= last_sequence (0 included),
\* for a token with has_snapshot = true, is dropped: upsert_orderbook is not
\* called, nothing is published, and last_sequence stays what it was (as long
\* as the entry is there).
C2_StaleDropped ==
  [][\A m \in BookMessages :
       (/\ m.type = "l2update" /\ m.token # NoToken
        /\ orderbook_state[m.token].has_snapshot
        /\ Carried(m) # None
        /\ Carried(m) <= orderbook_state[m.token].last_sequence
        /\ L2UpdateArrives(m))
         => /\ h'.pc = "idle"
            /\ ~h'.published
            /\ orderbook_state'[m.token].present
                 => orderbook_state'[m.token].last_sequence
                      = orderbook_state[m.token].last_sequence]_vars

\* C3 (as stated): every accepted order-book message that carries a sequence has
\* a sequence greater than that of the previously accepted sequenced message of
\* its token.
C3_Original ==
  [][(UpsertReturns /\ h.token = tracked /\ Carried(h) # None /\ acc # None)
       => Carried(h) > acc]_vars

\* C3 (amended): of two l2updates accepted for a token one after the other with
\* non-zero sequences, and with no snapshot and no sequenced message of another
\* type accepted for the token in between, the later has the greater sequence.
C3_Amended == Len(upd_chain) = 2 => upd_chain[1] < upd_chain[2]

\* Two such l2updates have been accepted in a row.
C3_Witness == Len(upd_chain) = 2 /\ upd_chain[1] < upd_chain[2]

\* C4: when the persistence call of an accepted message fails, the forward event
\* of the message is published all the same.
C4_PublishedDespiteFailure == h.result = "failed" => h.published

\* C5: while the upstream socket is open and token t is not in the manager's
\* registry, a client's subscribe to t puts t in the registry and makes the
\* manager send exactly one subscribe frame for t; the subscribe of a further
\* connection to a token that has a subscriber sends no upstream frame.
C5_OneUpstreamFrame ==
  [][\A c \in Conns, t \in Tokens :
       (ClientSubscribe(c, t) /\ ws = "open" /\ ~SubscribeRaised)
         => /\ t \notin Live(subscriptions)
                 => /\ t \in Live(subscriptions')
                    /\ FramesFor(sent', t) = FramesFor(sent, t) + 1
            /\ Get(token_connections, t) # {}
                 => FramesFor(sent', t) = FramesFor(sent, t)]_vars

\* C6: when run() has re-announced the registry on a new socket, every
\* (token, channel) pair of the registry has had its subscribe frame sent
\* exactly once on that socket, whatever other tasks called subscribe()
\* meanwhile.
C6_ReannouncedOnce ==
  [][(run.pc \in {"connect", "resub"} /\ run'.pc = "receive" /\ ws' = "open")
       => \A t \in Live(subscriptions') : \A c \in Channels : sent'[t][c] = 1]_vars

\* C7: no failure of connect, of the re-announcement, of receive or of a
\* heartbeat send terminates run(): run() never ends with an exception.
C7_RunSurvives == run.pc # "crashed"

\* C8: the relay's callback is registered on the bus under token t exactly
\* when t has at least one subscribed connection.
C8_BusFollowsSubscribers ==
  \A t \in Tokens :
    (on_event \in Get(subscribers, t)) <=> (Get(token_connections, t) # {})

\* One token has a subscriber and its registration, another had one (it is in
\* the upstream registry) and has lost both.
C8_Witness ==
  \E t \in Tokens, u \in Tokens :
    /\ Get(token_connections, t) # {} /\ on_event \in Get(subscribers, t)
    /\ u \in Live(subscriptions) /\ u \notin DOMAIN subscribers

\* C9: the two indexes of the relay are each other's inverse: connection c is
\* in the set of token t exactly when t is in the set of c.
C9_IndexesInverse ==
  \A c \in Conns, t \in Tokens :
    (c \in Get(token_connections, t)) <=> (t \in Get(connection_tokens, c))

\* A connection has been cleaned up by a failed fan-out send while its
\* handler is still running, and another connection holds two tokens.
C9_Witness ==
  \E c \in Conns, d \in Conns :
    /\ client[c].pc \in {"recv", "respond", "bulk", "raise"}
    /\ c \notin DOMAIN connection_tokens
    /\ Cardinality(Get(connection_tokens, d)) = 2

\* This step is taken for connection c: its socket or its handler moves, or a
\* fan-out send to it completes.
StepOf(c) == client'[c] # client[c] \/ (Pending(fan, c) /\ ~Pending(fan', c))

\* _cleanup_connection(c) runs in this step: the handler of c ends, or a
\* fan-out send to c fails.
CleansUp(c) ==
  \/ client[c].pc # "ended" /\ client'[c].pc = "ended"
  \/ Pending(fan, c) /\ ~Pending(fan', c) /\ client[c].sock # "open"

\* C10: connecting a client, subscribing it to tokens and dropping it leaves
\* both indexes as they were before it connected.  Every step taken for
\* connection c (its connect, its subscribes and unsubscribes, its cleanup)
\* leaves the entries of the other connections as they are and no token with an
\* empty set; the cleanup removes c from both indexes; and c stays out of them
\* once its handler has ended.
C10_CleanupExact ==
  [][\A c \in Conns :
       /\ StepOf(c)
            => /\ \A d \in Conns \ {c} :
                    /\ d \in DOMAIN connection_tokens' <=> d \in DOMAIN connection_tokens
                    /\ Get(connection_tokens', d) = Get(connection_tokens, d)
               /\ \A t \in Tokens :
                    Get(token_connections', t) \ {c} = Get(token_connections, t) \ {c}
               /\ \A t \in DOMAIN token_connections' : token_connections'[t] # {}
       /\ (CleansUp(c) \/ client'[c].pc = "ended")
            => /\ c \notin DOMAIN connection_tokens'
               /\ \A t \in Tokens : c \notin Get(token_connections', t)]_vars

\* The handler of a connection that held subscriptions has ended while another
\* connection holds subscriptions.
C10_Witness ==
  \E c \in Conns, d \in Conns :
    /\ c # d
    /\ client[c].pc = "ended" /\ client[c].had
    /\ Get(connection_tokens, d) # {}
\* C11 (as stated): publish returns normally whatever the subscribers do, and
\* when it has returned every callback of its snapshot was invoked once, in
\* the order of the snapshot, also when one of them failed.
C11_Original ==
  /\ pub.pc # "raised"
  /\ pub.pc = "returned" => pub.invoked = pub.snap

\* C11 (amended): a callback that raises an Exception does not end publish:
\* every callback of the snapshot list is invoked once (a callback registered
\* under the token and under the wildcard is twice in the list), and publish
\* returns.  Only a callback that raises a BaseException which is no Exception
\* (a cancellation) makes publish raise, and the callbacks after it are not
\* invoked.
C11_Amended ==
  /\ pub.pc = "raised" => pub.last = "cancelled"
  /\ pub.pc = "returned" => pub.invoked = pub.snap /\ pub.todo = <<>>
  /\ pub.pc = "calling" => pub.invoked \o pub.todo = pub.snap /\ pub.todo # <<>>

\* publish has returned after a callback that was not the last one failed.
C11_Witness ==
  /\ pub.pc = "returned"
  /\ pub.failed_at > 0 /\ pub.failed_at < Len(pub.snap)
  /\ pub.invoked = pub.snap

\* C12: a publish that has returned has invoked every callback that was
\* registered under the event's token or under the wildcard when the snapshot
\* was taken, and at no time has it invoked a callback that was then
\* registered under other keys only.
C12_SnapshotInvoked ==
  /\ Range(pub.invoked) \subseteq pub.tok \cup pub.wild
  /\ Range(pub.invoked) \cap pub.other = {}
  /\ pub.pc = "returned" => Range(pub.invoked) = pub.tok \cup pub.wild

\* publish has returned, having invoked a wildcard callback and not the
\* callback that was registered under another token only.
C12_Witness ==
  /\ pub.pc = "returned"
  /\ pub.wild # {} /\ pub.wild \subseteq Range(pub.invoked)
  /\ pub.other # {} /\ pub.other \cap Range(pub.invoked) = {}

\* C13: in every state that subscribe, unsubscribe, unsubscribe_all and publish
\* can reach, no key of the bus holds an empty set; a second identical
\* subscribe or unsubscribe leaves the map as the first left it; and
\* unsubscribing a callback that is not registered under the key (or a key
\* that is not in the map) leaves the map as it is.
C13_IdempotentNoEmpty ==
  /\ \A k \in DOMAIN subscribers : subscribers[k] # {}
  /\ \A k \in BusKeys, cb \in Callbacks :
       LET s1 == BusSubscribe(subscribers, k, cb)
           u1 == BusUnsubscribe(subscribers, k, cb)
       IN  /\ BusSubscribe(s1, k, cb) = s1
           /\ BusUnsubscribe(u1, k, cb) = u1
           /\ cb \notin Get(subscribers, k) => u1 = subscribers
           /\ \A x \in DOMAIN s1 : s1[x] # {}
           /\ \A x \in DOMAIN u1 : u1[x] # {}

\* The callbacks that a publish had found have all been removed since, and the
\* map has no key left.
C13_Witness ==
  /\ subscribers = Empty
  /\ pub.pc = "returned" /\ pub.snap # <<>>

\* C14: no row of orderbook_levels has a size whose number is zero (each
\* upsert_orderbook for a token leaves none for that token).
C14_NoZeroLevel ==
  \A k \in DOMAIN orderbook_levels : ~ZeroSize(orderbook_levels[k])

\* A handler call for the followed trade_id is suspended in save_trade.
SaveInProgress == h.pc = "save_trade" /\ Followed(h.id)

\* C15: however often the same valid trade message is processed, at most one
\* row with its trade_id is inserted: the first save_trade that returns
\* returns True and inserts the row, every later one returns False and
\* inserts nothing, and each processing in which save_trade returns publishes
\* one forward event, so that k processings publish exactly k events.
C15_OneRowKEvents ==
  /\ trade_hist.rows = (IF trade_hist.saves = <<>> THEN 0 ELSE 1)
  /\ (trade_hist.rows = 1) = (trade_hist.id \in db_trades)
  /\ \A i \in DOMAIN trade_hist.saves : trade_hist.saves[i] = (i = 1)
  /\ trade_hist.events = Len(trade_hist.saves)
  /\ trade_hist.events + trade_hist.failures + (IF SaveInProgress THEN 1 ELSE 0)
       = trade_hist.handled

\* The followed message has been processed more than once, save_trade
\* returning each time.
C15_Witness ==
  /\ trade_hist.handled >= 2 /\ trade_hist.failures = 0 /\ ~SaveInProgress
  /\ trade_hist.events = trade_hist.handled /\ trade_hist.rows = 1

\* A prune pass runs: the heartbeat's, or the one of the order-book message
\* that brings the message count to the prune interval.
PrunePass ==
  \/ PruneOrderbookState
  \/ /\ h.pc = "idle"
     /\ orderbook_message_count + 1 >= ORDERBOOK_PRUNE_INTERVAL
     /\ \E m \in BookMessages : m.token # NoToken /\ HandleOrderbookMessage(m)

\* C16: immediately after every prune pass the sequencer state map has at
\* most ORDERBOOK_MAX_ENTRIES entries, whatever it held before.
C16_PruneBounds ==
  [][PrunePass => Cardinality(Present(orderbook_state')) <= ORDERBOOK_MAX_ENTRIES]_vars

\* The handler of the message that ran the prune pass is suspended in its
\* persistence call, and the pass has left the map at its limit.
C16_Witness ==
  /\ h.pc = "upsert" /\ orderbook_message_count = 0
  /\ Cardinality(Present(orderbook_state)) = ORDERBOOK_MAX_ENTRIES

\* stop() has been called while run() was under way, and run() has not ended.
StoppedInRun == ~is_running /\ run.pc \notin {"idle", "returned", "crashed"}

\* C17: if stop() is called at any point during run(), then run() eventually
\* ends, under fair scheduling of the tasks.
C17_RunReturns == StoppedInRun ~> run.pc \in {"returned", "crashed"}

\* C18: while the manager is stopped (stop() has returned and run() has not
\* been started again) no upstream socket is open and the sequencer state map
\* is empty.
C18_StoppedClean ==
  ~is_running => ws # "open" /\ Present(orderbook_state) = {}

\* C19: the delay of a back-off sleep is min(initial * 2^k, max), k being the
\* number of back-off sleeps taken since the last successful connect (or since
\* the start), so the first sleep after a successful connect lasts `initial`;
\* and the current delay never exceeds the maximum.
C19_BackoffDelay ==
  /\ backoff.current <= backoff.max
  /\ run.pc = "backoff" =>
       backoff.current = Min({backoff.initial * 2^backoff.sleeps, backoff.max})
  /\ backoff.sleeps = 0 => backoff.current = backoff.initial

\* run() sleeps for the third time in a row, for the maximum, which is less
\* than the doubled delay would be and more than the sleep before.
C19_Witness ==
  /\ run.pc = "backoff" /\ backoff.sleeps = 2
  /\ backoff.current = backoff.max
  /\ backoff.initial * 2 < backoff.max /\ backoff.max < backoff.initial * 4

\* C20: when a heartbeat send has failed while the manager is running, the
\* socket is not open as long as the receive loop has not ended, and run()
\* eventually makes a new connect attempt, unless stop() is called first;
\* under fair scheduling of the tasks.
C20_HeartbeatReconnects ==
  /\ [](hb_failed /\ run.pc = "receive" => ws # "open")
  /\ (hb_failed /\ is_running) ~> (run.pc = "connect" \/ ~is_running)

\* run() is in its connect attempt after the heartbeat failure.
C20_Witness == hb_failed /\ is_running /\ run.pc = "connect"

\* C21: subscribe(T) puts T in the registry whatever the state of the socket
\* and whether its send succeeds; called while not connected it sends
\* nothing; and once a connect has succeeded with T in the registry, T's
\* frame is sent on that socket, unless the socket goes away or T is
\* unsubscribed first (under fair scheduling of the tasks).
C21_SubscribeTakesEffect ==
  /\ [][\A t \in Tokens :
          Subscribe(t) => /\ t \in Live(subscriptions')
                          /\ ws # "open" => sent' = sent]_vars
  /\ \A t \in Tokens :
       (ws = "open" /\ t \in Live(subscriptions))
         ~> (FramesFor(sent, t) >= 1 \/ ws # "open" \/ t \notin Live(subscriptions))

C24_FanOutFailure ==
  [][\A c \in Conns :
       (Pending(fan, c) /\ ~Pending(fan', c) /\ client[c].sock # "open")
         => /\ \E p \in fan : p[1] = c /\ fan' = fan \ {p}
            /\ c \notin DOMAIN connection_tokens'
            /\ \A t \in Tokens : c \notin Get(token_connections', t)
            /\ \A d \in Conns \ {c} :
                 /\ client'[d] = client[d]
                 /\ Get(connection_tokens', d) = Get(connection_tokens, d)
                 /\ \A t \in Tokens :
                      d \in Get(token_connections', t) <=> d \in Get(token_connections, t)]_vars

\* The send to one connection has failed and cleaned it up while its handler
\* still runs; the send of the same fan-out to a subscribed connection is
\* still to complete.
C24_Witness ==
  \E c \in Conns, d \in Conns :
    /\ c # d
    /\ client[c].sock = "closed" /\ client[c].pc \in {"recv", "respond", "bulk"}
    /\ c \notin DOMAIN connection_tokens /\ ~Pending(fan, c)
    /\ Pending(fan, d) /\ client[d].sock = "open" /\ Get(connection_tokens, d) # {}

\* C30: while the handler of an accepted order-book message is suspended in
\* upsert_orderbook, the sequencer state of the message's token is already the
\* state the message leads to: whatever runs during the call sees the updated
\* state.
C30_StateBeforeUpsert ==
  h.pc = "upsert"
    => orderbook_state[h.token] =
         NewState(h.type, Sequence(h), h.last_seq, h.has_snapshot, h.now)

\* C28: a bulk subscribe does what add_subscription does for each token of the
\* list in order, and subscribes upstream every token that had no subscriber
\* before the call.  add_subscription writes a token to the indexes only on
\* its way to the upstream subscribe of that token, so under it, and under a
\* bulk subscribe that is its equal, every token that has a subscriber is in
\* the upstream registry, unless a bulk call in progress still holds it among
\* the tokens it has to subscribe upstream, or its only subscribers are
\* handlers that an exception is taking to their cleanup.
C28_BulkAsAddEach ==
  \A t \in Tokens :
    Get(token_connections, t) # {}
      => \/ t \in Live(subscriptions)
         \/ \E c \in Conns : client[c].pc = "bulk" /\ t \in Range(client[c].todo)
         \/ \A c \in Get(token_connections, t) : client[c].pc = "raise"

\* C29: whatever a message holds under event_type, type and channel, the
\* router takes the path of the first rule of the dispatch list that the
\* message matches (strings compared without regard to case, a missing key or
\* a null matching nothing): the order-book path for rules 1 and 5, the trade
\* path for rules 2 and 4, and no handler (no persistence call, no publish)
\* for rules 3, 6, 7, 8 and 9.
C29_FirstMatchingRule ==
  LET Is(value, str) == value \notin {Absent, Null} /\ Lower(value) = str
      e == route.event_type
      t == route.type
      c == route.channel
      matched ==
        IF Is(e, "book") \/ Is(e, "price_change") THEN "orderbook"
        ELSE IF Is(e, "last_trade_price") THEN "trade"
        ELSE IF Is(e, "tick_size_change") THEN "none"
        ELSE IF Is(t, "trade") \/ Is(c, "trades") THEN "trade"
        ELSE IF Is(t, "snapshot") \/ Is(t, "l2update") \/ Is(c, "l2") THEN "orderbook"
        ELSE "none"
  IN  route.path # "none"
        => /\ matched = "orderbook" <=> route.path = "orderbook"
           /\ matched = "trade" <=> route.path = "trade"

\* C23: nothing the relay does (a subscribe, an unsubscribe, the cleanup of a
\* connection that disconnects or whose fan-out send fails, its stop) takes a
\* token out of the upstream registry or touches the sequencer state: in every
\* step of the relay the registry keeps its tokens and the sequencer state is
\* unchanged.
C23_RegistryOnlyGrows ==
  [][/\ Live(subscriptions) \subseteq Live(subscriptions')
     /\ orderbook_state' = orderbook_state
     /\ orderbook_message_count' = orderbook_message_count]_vars

\* The relay has been stopped after a connection that held subscriptions was
\* cleaned up: no token has a subscriber or a bus registration, and the
\* registry holds the token it had and the one the relay added, with the
\* sequencer state still there.
C23_Witness ==
  /\ server = "none" /\ ~relay_is_running
  /\ \E c \in Conns : client[c].had
  /\ token_connections = Empty /\ subscribers = Empty
  /\ Live(subscriptions) = Tokens
  /\ \E t \in Tokens : orderbook_state[t].present

\* C26: start() on a relay that is started opens no second listener and
\* changes nothing; once stop() has returned both indexes are empty and the
\* relay's callback is registered under no key of the bus.
C26_StartStop ==
  /\ [][server # "none" => listeners' <= listeners]_vars
  /\ [](listeners <= 1)
  /\ []((server = "none" /\ ~relay_is_running)
          => /\ token_connections = Empty
             /\ connection_tokens = Empty
             /\ \A k \in BusKeys : on_event \notin Get(subscribers, k))

\* stop() has returned on a relay that was started and had a connection with
\* subscriptions, while a fan-out send to that connection is still pending.
C26_Witness ==
  /\ server = "none" /\ ~relay_is_running /\ listeners = 0
  /\ \E c \in Conns : client[c].had /\ Pending(fan, c)
  /\ \E c \in Conns : client[c].pc = "none"

\* C27: a frame of connection c that is answered with an error code changes
\* neither index, no bus registration and no entry of the upstream registry,
\* neither when it is rejected nor when the error frame is sent; exactly one
\* error frame is written to c, and nothing happens to any other connection.
C27_RejectedFrame ==
  [][\A c \in Conns :
       LET rejected == client[c].error = NoError /\ client'[c].error # NoError
           answered == client[c].error # NoError /\ client'[c].error = NoError
       IN  /\ (rejected \/ answered)
                => /\ token_connections' = token_connections
                   /\ connection_tokens' = connection_tokens
                   /\ subscribers' = subscribers
                   /\ subscriptions' = subscriptions
                   /\ fan' = fan
                   /\ \A d \in Conns \ {c} : client'[d] = client[d]
           /\ rejected => client'[c].errors = client[c].errors
           /\ answered
                => client'[c].errors =
                     client[c].errors + (IF client[c].sock = "open" THEN 1 ELSE 0)]_vars

\* A connection that holds a subscription has been sent an error frame, the
\* other connection, which holds one too, none.
C27_Witness ==
  \E c \in Conns, d \in Conns :
    /\ client[c].errors = 1 /\ client[c].error = NoError
    /\ Get(connection_tokens, c) # {}
    /\ client[d].errors = 0 /\ client[d].error = NoError
    /\ Get(connection_tokens, d) # {}

\* C25: the frames of the events of one token are written to a connection in
\* the order in which the events were published, which is the order in which
\* the sequencer accepted their messages: of two frames of the same token on
\* a connection, the earlier one carries the smaller number.
C25_InOrder ==
  \A c \in Conns :
    \A i \in DOMAIN delivered[c], j \in DOMAIN delivered[c] :
      (i < j /\ delivered[c][i][1] = delivered[c][j][1])
        => delivered[c][i][2] < delivered[c][j][2]

\* A connection has been sent the first and then the second event of a token,
\* and the other connection, which subscribed in between, the second alone.
C25_Witness ==
  \E c \in Conns, d \in Conns, t \in Tokens :
    /\ c # d
    /\ delivered[c] = <<(<<t, 1>>), (<<t, 2>>)>>
    /\ delivered[d] = <<(<<t, 2>>)>>

\* C31: an order-book frame that names its token and whose type is neither
\* snapshot nor l2update is never dropped, whatever the state of its token and
\* whatever sequence it carries: the handler goes on to upsert_orderbook with
\* the has_snapshot it read (false when the token has no entry), and when the
\* call has returned the event is published and the token's entry holds the
\* time the handler read and that same has_snapshot.
C31_UnknownTypeAccepted ==
  [][/\ \A m \in BookMessages :
          (m.type = "book" /\ m.token # NoToken /\ HandleOrderbookMessage(m))
            => /\ h'.pc = "upsert"
               /\ h'.has_snapshot = (/\ orderbook_state'[m.token].present
                                     /\ orderbook_state'[m.token].has_snapshot)
     /\ (h.pc = "upsert" /\ h.type = "book" /\ h'.result = "accepted")
          => /\ h'.published
             /\ orderbook_state'[h.token].present
             /\ orderbook_state'[h.token].has_snapshot = h.has_snapshot
             /\ orderbook_state'[h.token].last_seen_monotonic = h.now]_vars

\* A frame of unknown type has been accepted for a token without a baseline
\* and has left a sequence number in its entry, and the other token keeps the
\* baseline it had.
C31_Witness ==
  /\ h.result = "accepted"
  /\ \E t \in Tokens, u \in Tokens :
       /\ orderbook_state[t].present /\ ~orderbook_state[t].has_snapshot
       /\ orderbook_state[t].last_sequence > 0
       /\ orderbook_state[u].present /\ orderbook_state[u].has_snapshot

\* C32: an l2update that carries no sequence number, for a token whose entry
\* the handler reads with has_snapshot true, is never dropped, whatever
\* last_sequence the entry holds: the handler goes on to upsert_orderbook, and
\* when the call has returned the entry holds the last_sequence the handler
\* read and the time the handler read.
C32_UnsequencedUpdate ==
  [][/\ \A m \in BookMessages :
          (/\ m.type = "l2update" /\ m.seq = None /\ m.sequence = None
           /\ m.token # NoToken
           /\ HandleOrderbookMessage(m)
           /\ orderbook_state'[m.token].present
           /\ orderbook_state'[m.token].has_snapshot)
            => /\ h'.pc = "upsert"
               /\ h'.last_seq = orderbook_state'[m.token].last_sequence
     /\ (/\ h.pc = "upsert" /\ h.type = "l2update"
         /\ h.seq = None /\ h.sequence = None
         /\ h'.result = "accepted")
          => /\ orderbook_state'[h.token].present
             /\ orderbook_state'[h.token].has_snapshot
             /\ orderbook_state'[h.token].last_sequence = h.last_seq
             /\ orderbook_state'[h.token].last_seen_monotonic = h.now]_vars

\* An l2update without a sequence number has been accepted for a token whose
\* entry holds the largest sequence number and an older time.
C32_Witness ==
  /\ h.pc = "upsert" /\ h.type = "l2update" /\ h.seq = None /\ h.sequence = None
  /\ h.has_snapshot /\ h.last_seq = MaxSeq
  /\ orderbook_state[h.token].last_sequence = MaxSeq
  /\ h.now > orderbook_state[h.token].last_seen_monotonic

\* C33: a prune pass removes every entry whose last_seen_monotonic is more
\* than the TTL before the time of the pass; of the other entries it removes
\* as many as there are beyond ORDERBOOK_MAX_ENTRIES (none when they are within
\* the limit), none of them seen later than an entry that stays; the entries
\* that stay are unchanged.
C33_PrunePass ==
  [][PrunePass =>
       LET expired == {t \in Present(orderbook_state) :
                         now - orderbook_state[t].last_seen_monotonic
                           > ORDERBOOK_TTL_SECONDS}
           recent == Present(orderbook_state) \ expired
           kept == Present(orderbook_state')
           evicted == recent \ kept
           surplus == IF Cardinality(recent) > ORDERBOOK_MAX_ENTRIES
                      THEN Cardinality(recent) - ORDERBOOK_MAX_ENTRIES ELSE 0
       IN  /\ kept \subseteq recent
           /\ Cardinality(evicted) = surplus
           /\ \A e \in evicted, k \in kept :
                orderbook_state[e].last_seen_monotonic
                  <= orderbook_state[k].last_seen_monotonic
           /\ \A k \in kept : orderbook_state'[k] = orderbook_state[k]]_vars

\* Within the TTL of the first entry a prune pass has removed one of two
\* entries, and the one it has left was seen at the time of the pass.
C33_Witness ==
  \E k \in Tokens, e \in Tokens :
    /\ now = ORDERBOOK_TTL_SECONDS
    /\ Present(orderbook_state) = {k}
    /\ orderbook_state[k].last_seen_monotonic = now
    /\ e # k /\ snap_seen[e]

\* The entry of token t is older than the TTL.
Expired(t) ==
  /\ orderbook_state[t].present
  /\ now - orderbook_state[t].last_seen_monotonic > ORDERBOOK_TTL_SECONDS

\* C34: the handler runs a prune pass at the message that brings the count to
\* the prune interval; and while the heartbeat task is sending, an entry that
\* is older than the TTL is eventually removed (or seen again: a message of its
\* token is accepted), whether or not any order-book message is processed.
C34_ExpiredEntriesGo ==
  /\ [][(/\ h.pc = "idle" /\ h'.pc = "upsert"
         /\ orderbook_message_count + 1 >= ORDERBOOK_PRUNE_INTERVAL)
          => /\ orderbook_message_count' = 0
             /\ \A t \in Tokens : ~Expired(t)']_vars
  /\ \A t \in Tokens :
       Expired(t) ~> (~Expired(t) \/ heartbeat # "active")

\* The one message that has been processed left an entry, and the heartbeat,
\* which is still sending, has removed it.
C34_Witness ==
  /\ h.result = "accepted" /\ orderbook_message_count = 1
  /\ Present(orderbook_state) = {}
  /\ heartbeat = "active" /\ now = ClockEnd

C37_RemovalSticks ==
  [][(/\ h.pc = "upsert" /\ h.last_seq >= 0
      /\ ~orderbook_state[h.token].present
      /\ h'.pc # "upsert")
       => ~orderbook_state'[h.token].present]_vars

\* C38: the sends that _on_event starts for an event of token T go to the
\* connections that are in token_connections[T] when the event reaches the
\* callback and to no other, and a frame is written to a connection's socket
\* only by a send so started: a connection is never sent a frame of a token
\* it has not subscribed to, whatever the other connections subscribe to.
C38_OnlyToMembers ==
  /\ [][\A p \in fan' \ fan : p[1] \in Get(token_connections, p[2])]_vars
  /\ [][\A c \in Conns :
          delivered'[c] # delivered[c]
            => /\ Len(delivered'[c]) = Len(delivered[c]) + 1
               /\ LET f == delivered'[c][Len(delivered'[c])]
                  IN  <<c, f[1], f[2]>> \in fan]_vars

\* A frame of one token is pending for a connection while the other
\* connection, subscribed to the other token only, has been sent a frame of
\* that one, and the first connection has been sent none.
C38_Witness ==
  \E c \in Conns, d \in Conns, t \in Tokens, u \in Tokens :
    /\ c # d /\ t # u
    /\ \E p \in fan : p[1] = c /\ p[2] = t
    /\ ~\E p \in fan : p[1] = c /\ p[2] = u
    /\ delivered[c] = <<>>
    /\ Get(connection_tokens, c) = {t}
    /\ Get(connection_tokens, d) = {u}
    /\ delivered[d] = <<<<u, 1>>>>

\* C39: run() is entered once, so one receive loop exists at most, and a
\* heartbeat loop is alive only while run() is in the receive loop of the
\* connection the heartbeat task was created for: the task is created when
\* run() enters the receive loop, it is cancelled (and awaited) before run()
\* goes on to disconnect() and to the next connect attempt, and a new socket
\* is stored in _ws only when no heartbeat loop is alive.  A PING can
\* therefore be sent only on the socket of the current connection, while
\* run() iterates it.
C39_OneHeartbeat ==
  /\ [](heartbeat = "active" => run.pc = "receive")
  /\ [](ENABLED HeartbeatTick => run.pc = "receive" /\ ws = "open")
  /\ [][(ws # "open" /\ ws' = "open")
          => run.pc = "connect" /\ heartbeat # "active"]_vars
  /\ [][(heartbeat # "active" /\ heartbeat' = "active")
          => run.pc \in {"connect", "resub"} /\ run'.pc = "receive"]_vars

\* run() is at its second connect attempt, the heartbeat task of the first
\* connection has ended and the socket of that connection is gone.
C39_Witness ==
  /\ run.pc = "connect" /\ is_running
  /\ heartbeat = "done" /\ ws = "none"
  /\ backoff.sleeps >= 1

\* C40: the on_disconnect callbacks, which disconnect() invokes, fire once for
\* each established connection that ends and never when no connection was
\* established: every call of disconnect(), the one of run() after its
\* receive loop and the one of stop(), finds a connection in _ws that no
\* earlier call has ended yet.
C40_OncePerConnection ==
  [][(\/ run.pc = "cleanup" /\ run'.pc # "cleanup"
      \/ is_running /\ ~is_running')
       => ws # "none"]_vars

====
